---- MODULE Spec2Model ----
(***************************************************************************)
(* A model of the CDP client of AntigravityMobile (src/unnamed/part_000):  *)
(* target discovery (findEditorTarget), the session channel built by       *)
(* connectToTarget (identifier counter, pending table, message handler),   *)
(* and the command facade (captureScreenshot ... getWorkspacePath).        *)
(*                                                                         *)
(* Three specifications share the variables:                                *)
(*   SpecTargets  findEditorTarget applied to every bounded target list    *)
(*   SpecSession  callers of the exported connectToTarget driving sessions *)
(*                directly, against a remote that may send any message     *)
(*   Spec         one invocation of a facade command, from call to return  *)
(***************************************************************************)
EXTENDS Integers, Sequences, FiniteSets, TLC

(***************************************************************************)
(* Bounds of the model.                                                    *)
(***************************************************************************)
MaxTargets == 2       \* longest target list returned by /json/list
MaxSessions == 2      \* sessions that can exist at the same time
MaxCalls == 4         \* calls of connectToTarget, send and close by direct callers
MaxText == 2          \* longest text given to injectCommand / injectAndSubmit

VARIABLES
    targets,    \* SpecTargets: the list getTargets returned
    found,      \* SpecTargets: [called, editor], the result of findEditorTarget
    sess,       \* per session: transport state, messageId, pending, promises, wire
    dropped,    \* history: the kind of the last message the handler ignored
    cmd,        \* Spec: the facade command being run
    call        \* SpecCalls: one call of a function that holds no session

vars == <<targets, found, sess, dropped, cmd, call>>

(***************************************************************************)
(* Targets.  A title and a url are sequences of tokens; String.includes is *)
(* containment of a token, case-sensitive ("antigravity" is another token).*)
(***************************************************************************)
Titles ==
    { <<"MyProject", "-", "Antigravity">>,
      <<"Antigravity", "-", "Launchpad">>,
      <<"antigravity">>,
      <<"Settings">> }

Urls == { <<"vscode-file", "workbench.html">>, <<"devtools", "inspector.html">> }

Target == [type : {"page", "worker"}, title : Titles, url : Urls, wsUrl : BOOLEAN]

\* findEditorTarget's `undefined`
NoTarget == [type |-> "undefined", title |-> <<>>, url |-> <<>>, wsUrl |-> FALSE]

TargetLists == UNION { [1..n -> Target] : n \in 0..MaxTargets }

\* String.prototype.includes
Includes(str, tok) == \E i \in 1..Len(str) : str[i] = tok

\* the predicate of the first targets.find
IsEditor(t) ==
    /\ t.type = "page"
    /\ Includes(t.title, "Antigravity")
    /\ ~Includes(t.title, "Launchpad")
    /\ ~Includes(t.url, "devtools")

\* the predicate of the second targets.find
IsPage(t) == t.type = "page"

\* Array.prototype.find from index i on: the first element for which the
\* callback P (a function on targets) is true, else undefined
RECURSIVE Find(_, _, _)
Find(list, P, i) ==
    IF i > Len(list) THEN NoTarget
    ELSE IF P[list[i]] THEN list[i]
    ELSE Find(list, P, i + 1)

\* A plausible slip: the Launchpad exclusion forgotten
IsEditorNoLaunchpadCheck(t) ==
    /\ t.type = "page"
    /\ Includes(t.title, "Antigravity")
    /\ ~Includes(t.url, "devtools")

FindEditorTargetKeepsLaunchpad(list) ==
    LET editor == Find(list, [t \in Target |-> IsEditorNoLaunchpadCheck(t)], 1)
    IN  IF editor # NoTarget THEN editor ELSE Find(list, [t \in Target |-> IsPage(t)], 1)

\* findEditorTarget, given the list getTargets returned
FindEditorTarget(list) ==
    LET editor == Find(list, [t \in Target |-> IsEditor(t)], 1)
    IN  IF editor # NoTarget THEN editor ELSE Find(list, [t \in Target |-> IsPage(t)], 1)

(***************************************************************************)
(* The session channel: the state connectToTarget creates for one call     *)
(* (ws, messageId, pending) and the promises client.send hands out.        *)
(***************************************************************************)
Sessions == 1..MaxSessions

ErrMsgs == {"E1", "E2"}        \* msg.error.message
Results == {"undef", "R1", "R2"} \* msg.result: absent, or one of two objects

NoIdField == -1                 \* a message without an id field

\* the messages the remote may send on a session whose counter is `next`:
\* no id, id 0, every identifier issued so far, and one not issued yet
Messages(next) ==
    { [id |-> i, error |-> "absent", result |-> r] : i \in NoIdField..next, r \in Results }
    \cup { [id |-> i, error |-> e, result |-> "undef"] : i \in NoIdField..next, e \in ErrMsgs }

NoMsg == [id |-> -2, error |-> "absent", result |-> "undef"]

\* a promise returned by client.send; `by` and `calls` are history: the
\* message whose handling settled it, and how often resolve/reject was called
NewPromise(id) ==
    [id |-> id, state |-> "pending", value |-> "undef", by |-> NoMsg, calls |-> 0]

\* calling a promise's resolve or reject: only the first call settles it
Settle(pr, st, v, m) ==
    IF pr.state = "pending"
    THEN [pr EXCEPT !.state = st, !.value = v, !.by = m, !.calls = @ + 1]
    ELSE [pr EXCEPT !.calls = @ + 1]

\* the state of a session slot before connectToTarget was called for it
NoSession ==
    [ws |-> "none", conn |-> "none", messageId |-> 0, pending |-> <<>>,
     promises |-> <<>>, wire |-> <<>>, closeCalls |-> 0]

\* connectToTarget up to `new WebSocket(wsUrl)`: conn is the state of the
\* promise connectToTarget returns
ConnectToTarget(target) ==
    IF ~target.wsUrl
    THEN [NoSession EXCEPT !.conn = "NoWebSocketURL"]
    ELSE [NoSession EXCEPT !.ws = "connecting", !.conn = "pending", !.messageId = 1]

\* ws.on('open'): the client is built and connectToTarget resolves with it
OnOpen(S) == [S EXCEPT !.ws = "open", !.conn = "client"]

\* A plausible slip: ws.on('error', reject) not registered
OnErrorNotRegistered(S) == [S EXCEPT !.ws = "closed"]

\* ws.on('error', reject): rejects connectToTarget unless it is settled; the
\* transport is gone afterwards
OnError(S) ==
    [S EXCEPT !.ws = "closed",
              !.conn = IF @ = "pending" THEN "ConnectionFailed" ELSE @]

\* the transport ends (close handshake done, or the remote went away): the
\* code registers no 'close' handler
OnClosed(S) == [S EXCEPT !.ws = "closed"]

\* A plausible slip: `const id = messageId` without the increment
ClientSendNoIncrement(S, method, params) ==
    LET id == S.messageId
        p == Len(S.promises) + 1
    IN  [S EXCEPT !.pending = (id :> p) @@ S.pending,
                  !.promises = Append(S.promises, NewPromise(id)),
                  !.wire = IF S.ws = "open"
                           THEN Append(@, [id |-> id, method |-> method, params |-> params])
                           ELSE @]

\* client.send(method, params).  ws.send transmits on an open transport;
\* once the transport is closing or closed, ws drops the frame without
\* throwing (no callback is passed), so the request is registered but never
\* reaches the remote
ClientSend(S, method, params) ==
    LET id == S.messageId
        p == Len(S.promises) + 1
    IN  [S EXCEPT !.messageId = id + 1,
                  !.pending = (id :> p) @@ S.pending,
                  !.promises = Append(S.promises, NewPromise(id)),
                  !.wire = IF S.ws = "open"
                           THEN Append(@, [id |-> id, method |-> method, params |-> params])
                           ELSE @]

\* A plausible slip: a close on a transport that is already closing
\* force-terminates it
ClientCloseTerminates(S) ==
    [S EXCEPT !.closeCalls = @ + 1,
              !.ws = IF @ = "open" THEN "closing"
                     ELSE IF @ = "closing" THEN "closed" ELSE @]

\* client.close(): ws.close(), which starts the closing handshake on an open
\* transport and returns at once on a closing or closed one
ClientClose(S) ==
    [S EXCEPT !.closeCalls = @ + 1,
              !.ws = IF @ = "open" THEN "closing" ELSE @]

\* JavaScript truthiness of msg.id
Truthy(id) == id # NoIdField /\ id # 0

\* msg.id && pending.has(msg.id)
Recognized(S, m) == Truthy(m.id) /\ m.id \in DOMAIN S.pending

MapDelete(f, k) == [i \in DOMAIN f \ {k} |-> f[i]]

\* A plausible slip: responses matched to the oldest pending request
OnMessageFifo(S, m) ==
    IF Truthy(m.id) /\ DOMAIN S.pending # {}
    THEN LET k == CHOOSE i \in DOMAIN S.pending : \A j \in DOMAIN S.pending : i <= j
             p == S.pending[k]
         IN  [S EXCEPT !.pending = MapDelete(S.pending, k),
                       !.promises[p] =
                           IF m.error # "absent"
                           THEN Settle(@, "rejected", m.error, m)
                           ELSE Settle(@, "resolved", m.result, m)]
    ELSE S

\* A plausible slip: pending.delete forgotten
OnMessageNoDelete(S, m) ==
    IF Recognized(S, m)
    THEN LET p == S.pending[m.id]
         IN  [S EXCEPT !.promises[p] =
                           IF m.error # "absent"
                           THEN Settle(@, "rejected", m.error, m)
                           ELSE Settle(@, "resolved", m.result, m)]
    ELSE S

\* A plausible slip: an error response fails every pending request
OnMessageErrorFailsAll(S, m) ==
    IF Recognized(S, m)
    THEN LET p == S.pending[m.id]
         IN  IF m.error # "absent"
             THEN [S EXCEPT !.pending = <<>>,
                            !.promises = [q \in DOMAIN S.promises |->
                                IF \E k \in DOMAIN S.pending : S.pending[k] = q
                                THEN Settle(S.promises[q], "rejected", m.error, m)
                                ELSE S.promises[q]]]
             ELSE [S EXCEPT !.pending = MapDelete(S.pending, m.id),
                            !.promises[p] = Settle(@, "resolved", m.result, m)]
    ELSE S

\* ws.on('message'): the handler, on the parsed message m
OnMessage(S, m) ==
    IF Recognized(S, m)
    THEN LET p == S.pending[m.id]
         IN  [S EXCEPT !.pending = MapDelete(S.pending, m.id),
                       !.promises[p] =
                           IF m.error # "absent"
                           THEN Settle(@, "rejected", m.error, m)
                           ELSE Settle(@, "resolved", m.result, m)]
    ELSE S

\* A plausible slip: messageId and pending kept at module level, shared by
\* every connection
DeliverToShared(ss, s, m) == [t \in DOMAIN ss |-> OnMessage(ss[t], m)]

\* a message arrives on session s: only the handler registered on that
\* session's ws runs, on that call's own messageId and pending
DeliverTo(ss, s, m) == [ss EXCEPT ![s] = OnMessage(ss[s], m)]

\* client.close() called by the holder of session s's client
CloseSession(ss, s) == [ss EXCEPT ![s] = ClientClose(ss[s])]

\* history: what kind of message the handler of S ignored
DroppedKind(S, m) ==
    IF m.id = NoIdField THEN "noid"
    ELSE IF \E q \in DOMAIN S.promises : S.promises[q].id = m.id THEN "late"
    ELSE "unknown"

(***************************************************************************)
(* The scripts the extraction commands evaluate in the page.  A text is    *)
(* known by what the scripts ask of it: id names the string, len is its    *)
(* length, spaceWords and words the sizes of split(' ') and split(/\s+/),   *)
(* sentence whether /[.!?]/ matches, black whether a blacklist pattern     *)
(* matches.  A string cut out of a text is [src, from, len].               *)
(***************************************************************************)
MaxRun == 21          \* longest run of like elements under the first selector
MaxTail == 1          \* longest run that follows it, and under the second selector

MessageWindow == 20       \* messages.slice(-20)
ContentLimit == 1500      \* text.substring(0, 1500)
MinTextLength == 30       \* text.length > 30
MaxTextLength == 5000     \* text.length < 5000
MinTrimmedLength == 20    \* trimmed.length < 20
MinSpaceWords == 4        \* trimmed.split(' ').length < 4
MinWordCount == 5         \* wordCount > 5

Min(a, b) == IF a <= b THEN a ELSE b
Max(a, b) == IF a >= b THEN a ELSE b
Least(S) == CHOOSE i \in S : \A j \in S : i <= j

\* text.substring(0, n)
Substring(text, n) == [src |-> text.id, from |-> 0, len |-> Min(text.len, n)]

\* the texts elements are given: lengths around each limit with enough
\* words and a sentence mark, and one text failing each other test; a text
\* of length 0 stands for an empty or missing innerText
Lengths == {MinTextLength, MinTextLength + 1, ContentLimit, ContentLimit + 1,
            MaxTextLength - 1, MaxTextLength}

PlainText(n) ==
    [id |-> 0, len |-> n, words |-> 6, spaceWords |-> 6, sentence |-> TRUE, black |-> FALSE]

TextKinds ==
    { PlainText(n) : n \in Lengths }
    \cup { PlainText(0),
           [PlainText(100) EXCEPT !.black = TRUE],
           [PlainText(100) EXCEPT !.sentence = FALSE],
           [PlainText(100) EXCEPT !.words = 5, !.spaceWords = 5] }

\* an element: its trimmed innerText and the tokens of its className
ElementKinds ==
    { [text |-> t, cls |-> <<"message">>] : t \in TextKinds }
    \cup { [text |-> PlainText(MinTextLength + 1), cls |-> <<"msg", "User">>] }

\* the texts the acceptance tests are tried on: every combination of a
\* length beside a limit, a word count beside each limit, with and without
\* a sentence mark and a blacklist match, and the texts '3:45 AM' (matches
\* /^\d+:\d+/) and 'Submit' (matches /^(submit|cancel|dismiss|retry)/i)
TimeLabel ==
    [id |-> 0, len |-> 7, words |-> 2, spaceWords |-> 2, sentence |-> FALSE, black |-> TRUE]
SubmitLabel ==
    [id |-> 0, len |-> 6, words |-> 1, spaceWords |-> 1, sentence |-> FALSE, black |-> TRUE]

FilterTexts ==
    [id : {0},
     len : {MinTrimmedLength - 1, MinTrimmedLength, MinTextLength, MinTextLength + 1,
            MaxTextLength - 1, MaxTextLength},
     words : {MinWordCount, MinWordCount + 1},
     spaceWords : {MinSpaceWords - 1, MinSpaceWords},
     sentence : BOOLEAN, black : BOOLEAN]
    \cup {TimeLabel, SubmitLabel}

\* n elements of kind e, their texts named first + 1 .. first + n
Run(e, n, first) == [i \in 1..n |-> [e EXCEPT !.text.id = first + i]]

\* the elements querySelectorAll returns for the first selectors of
\* conversationSelectors, in document order; later selectors match nothing
ChatPages ==
    { << Run(e1, n1, 0) \o Run(e2, n2, n1), Run(e3, n3, n1 + n2) >> :
        <<e1, e2, e3>> \in ElementKinds \X ElementKinds \X ElementKinds,
        <<n1, n2, n3>> \in (0..MaxRun) \X (0..MaxTail) \X (0..MaxTail) }
    \cup { << Run([text |-> t, cls |-> <<"message">>], 1, 0), <<>> >> : t \in FilterTexts }

\* isBlacklisted(text)
IsBlacklisted(text) ==
    \/ text.len < MinTrimmedLength
    \/ text.spaceWords < MinSpaceWords
    \/ text.black

\* A plausible slip: `wordCount >= 5`
AcceptedFiveWords(text) ==
    /\ text.len > 0
    /\ ~IsBlacklisted(text)
    /\ text.len > MinTextLength /\ text.len < MaxTextLength
    /\ text.sentence
    /\ text.words >= MinWordCount

\* the tests an element's text passes before a record is pushed
Accepted(text) ==
    /\ text.len > 0
    /\ ~IsBlacklisted(text)
    /\ text.len > MinTextLength /\ text.len < MaxTextLength
    /\ text.sentence
    /\ text.words > MinWordCount

\* String.prototype.toLowerCase on a className token
ToLowerCase(tok) == CASE tok = "User" -> "user" [] tok = "Human" -> "human" [] OTHER -> tok

RoleOf(cls) ==
    IF \E k \in DOMAIN cls : ToLowerCase(cls[k]) \in {"user", "human"} THEN "user" ELSE "agent"

\* the record pushed for an accepted element
MessageOf(el) == [role |-> RoleOf(el.cls), content |-> Substring(el.text, ContentLimit)]

\* `for (const el of els)` from element i on
RECURSIVE ScanElements(_, _, _)
ScanElements(els, i, messages) ==
    IF i > Len(els) THEN messages
    ELSE ScanElements(els, i + 1,
                      IF Accepted(els[i].text) THEN Append(messages, MessageOf(els[i]))
                      ELSE messages)

\* A plausible slip: the `break` forgotten, every selector is scanned
RECURSIVE ScanSelectorsNoBreak(_, _, _)
ScanSelectorsNoBreak(groups, g, messages) ==
    IF g > Len(groups) THEN messages
    ELSE ScanSelectorsNoBreak(groups, g + 1, ScanElements(groups[g], 1, messages))

\* `for (const sel of conversationSelectors)` from selector g on, with the
\* break once a selector has given a record
RECURSIVE ScanSelectors(_, _, _)
ScanSelectors(groups, g, messages) ==
    IF g > Len(groups) THEN messages
    ELSE LET after == ScanElements(groups[g], 1, messages)
         IN  IF Len(after) > 0 THEN after ELSE ScanSelectors(groups, g + 1, after)

\* Array.prototype.slice(-n)
SliceLast(seq, n) == SubSeq(seq, Max(1, Len(seq) - n + 1), Len(seq))

\* A plausible slip: slice(0, 20), the first records instead of the last
ChatScriptFirstRecords(groups) ==
    LET messages == ScanSelectors(groups, 1, <<>>)
    IN  [messages |-> SubSeq(messages, 1, Min(Len(messages), MessageWindow)),
         count |-> Len(messages)]

\* the function getChatMessages evaluates in the page
ChatScript(groups) ==
    LET messages == ScanSelectors(groups, 1, <<>>)
    IN  [messages |-> SliceLast(messages, MessageWindow), count |-> Len(messages)]

\* the page getAgentPanelContent looks at: panel is the position in
\* panelSelectors of the first selector that matches an element (0: none),
\* text and html are the innerText and innerHTML of that element, or the
\* body's innerText when there is none
PanelSelectors == 7       \* length of panelSelectors
PanelContentLimit == 5000 \* innerText?.substring(0, 5000)
PanelHtmlLimit == 10000   \* innerHTML?.substring(0, 10000)

PanelPages ==
    { [panel |-> k, text |-> [PlainText(n) EXCEPT !.id = 1],
       html |-> [PlainText(2 * n) EXCEPT !.id = 2]] :
        k \in {0, 1, PanelSelectors}, n \in {0, PanelContentLimit + 1} }

\* the function getAgentPanelContent evaluates in the page
PanelScript(page) ==
    IF page.panel # 0
    THEN [found |-> TRUE, selector |-> page.panel,
          content |-> Substring(page.text, PanelContentLimit),
          html |-> Substring(page.html, PanelHtmlLimit)]
    ELSE [found |-> FALSE, content |-> Substring(page.text, PanelContentLimit)]

\* the page getConversationText looks at: right tells whether one of the
\* four right-panel selectors matches, text and lines are that element's
\* innerText and its lines, markdown the innerText of each markdown container
RawTextLimit == 8000      \* text.substring(0, 8000)
MinLineLength == 20       \* l.trim().length > 20
MaxLines == 50            \* lines.slice(0, 50)
MaxMarkdownTexts == 20    \* texts.slice(0, 20)

ConversationPages ==
    { [right |-> r, text |-> [PlainText(n) EXCEPT !.id = 1],
       lines |-> IF n = 0 THEN <<>> ELSE << [PlainText(n) EXCEPT !.id = 2] >>,
       markdown |-> md] :
        r \in BOOLEAN, n \in {0, MinLineLength + 1},
        md \in { <<>>, << [PlainText(MinTextLength) EXCEPT !.id = 3] >>,
                 << [PlainText(MinTextLength) EXCEPT !.id = 3],
                    [PlainText(MinTextLength + 1) EXCEPT !.id = 4] >> } }

\* Array.prototype.slice(0, n)
SliceFirst(seq, n) == SubSeq(seq, 1, Min(Len(seq), n))

\* the function getConversationText evaluates in the page
ConversationScript(page) ==
    IF page.right
    THEN [found |-> TRUE, rawText |-> Substring(page.text, RawTextLimit),
          lines |-> SliceFirst(SelectSeq(page.lines, LAMBDA l : l.len > MinLineLength), MaxLines)]
    ELSE IF Len(page.markdown) > 0
    THEN [found |-> TRUE, source |-> "markdown",
          lines |-> SliceFirst(SelectSeq(page.markdown, LAMBDA t : t.len > MinTextLength),
                               MaxMarkdownTexts)]
    ELSE [found |-> FALSE]

(***************************************************************************)
(* getWorkspacePath: the snippet evaluated in the page and the inference   *)
(* made from its result.  A string is the sequence of its characters,      *)
(* indexed from 0 as in the source.                                        *)
(***************************************************************************)
UpperCase ==
    << "A", "B", "C", "D", "E", "F", "G", "H", "I", "J", "K", "L", "M", "N",
       "O", "P", "Q", "R", "S", "T", "U", "V", "W", "X", "Y", "Z" >>
LowerCase ==
    << "a", "b", "c", "d", "e", "f", "g", "h", "i", "j", "k", "l", "m", "n",
       "o", "p", "q", "r", "s", "t", "u", "v", "w", "x", "y", "z" >>

\* (ch >= 'A' && ch <= 'Z') || (ch >= 'a' && ch <= 'z')
IsLetter(ch) == \E n \in DOMAIN UpperCase : ch = UpperCase[n] \/ ch = LowerCase[n]

\* String.prototype.toLowerCase, one character and a string
LowerChar(ch) ==
    IF \E n \in DOMAIN UpperCase : ch = UpperCase[n]
    THEN LowerCase[CHOOSE n \in DOMAIN UpperCase : ch = UpperCase[n]]
    ELSE ch

LowerChars(s) == [i \in 1..Len(s) |-> LowerChar(s[i])]

\* charAt(k), substring(k), substring(a, b)
CharAt(s, k) == s[k + 1]
SubstringFrom(s, k) == SubSeq(s, k + 1, Len(s))
Slice(s, a, b) == SubSeq(s, a + 1, b)

\* pat occurs in s at index k
StartsAt(s, pat, k) == k + Len(pat) <= Len(s) /\ SubSeq(s, k + 1, k + Len(pat)) = pat

\* String.prototype.indexOf
IndexOf(s, pat) ==
    LET hits == {k \in 0..Len(s) : StartsAt(s, pat, k)}
    IN  IF hits = {} THEN -1 ELSE Least(hits)

\* String.prototype.trim (the strings here hold no white space but ' ')
RECURSIVE TrimStart(_)
TrimStart(s) == IF s # <<>> /\ s[1] = " " THEN TrimStart(Tail(s)) ELSE s

RECURSIVE TrimEnd(_)
TrimEnd(s) == IF s # <<>> /\ s[Len(s)] = " " THEN TrimEnd(SubSeq(s, 1, Len(s) - 1)) ELSE s

Trim(s) == TrimEnd(TrimStart(s))

\* the string as TLC prints it
RECURSIVE Render(_)
Render(s) == IF s = <<>> THEN "" ELSE s[1] \o Render(Tail(s))

\* Array.prototype.join
RECURSIVE Join(_, _)
Join(parts, sep) ==
    IF parts = <<>> THEN <<>>
    ELSE IF Len(parts) = 1 THEN parts[1]
    ELSE parts[1] \o sep \o Join(Tail(parts), sep)

MinSourceLength == 5      \* src.length < 5
FilePrefixLength == 8     \* uri.substring(8)

HomeRoot ==
    << "/", "h", "o", "m", "e", "/" >>
UsersRoot ==
    << "/", "U", "s", "e", "r", "s", "/" >>
VarRoot ==
    << "/", "v", "a", "r", "/" >>
OptRoot ==
    << "/", "o", "p", "t", "/" >>

\* unixRoots, and the delims of the two scans
UnixRoots == << HomeRoot, UsersRoot, VarRoot, OptRoot >>
WindowsDelims == << <<",">>, <<";">>, <<" ", "-", " ">> >>
UnixDelims == WindowsDelims \o << <<"'">>, <<"\"">> >>

\* what the snippet returns: isNull is `path: null`
NoData == [path |-> <<>>, isNull |-> TRUE, source |-> "none", isWindows |-> FALSE]

\* endIdx after `for (var d = 0; d < delims.length; d++)`
EndIndex(pathPart, delims) ==
    Least({Len(pathPart)}
          \cup {k \in {IndexOf(pathPart, delims[d]) : d \in DOMAIN delims} : k > 0})

\* "Windows: look for C: or D: pattern"
WindowsScan(src) ==
    LET hits == {k \in 0..(Len(src) - 2) : IsLetter(CharAt(src, k)) /\ CharAt(src, k + 1) = ":"}
    IN  IF hits = {} THEN NoData
        ELSE LET pathPart == SubstringFrom(src, Least(hits))
             IN  [path |-> Trim(Slice(pathPart, 0, EndIndex(pathPart, WindowsDelims))),
                  isNull |-> FALSE, source |-> "tab", isWindows |-> TRUE]

\* "Unix: /home, /Users, etc."
UnixScan(src) ==
    LET hits == {u \in DOMAIN UnixRoots : IndexOf(src, UnixRoots[u]) >= 0}
    IN  IF hits = {} THEN NoData
        ELSE LET pathPart == SubstringFrom(src, IndexOf(src, UnixRoots[Least(hits)]))
             IN  [path |-> Trim(Slice(pathPart, 0, EndIndex(pathPart, UnixDelims))),
                  isNull |-> FALSE, source |-> "tab", isWindows |-> FALSE]

\* the body of `for (var j = 0; j < sources.length; j++)` for one source
ScanSource(src) ==
    IF Len(src) < MinSourceLength THEN NoData
    ELSE IF ~WindowsScan(src).isNull THEN WindowsScan(src)
    ELSE UnixScan(src)

\* sources of every tab, in the order they are scanned
RECURSIVE Sources(_)
Sources(tabs) ==
    IF tabs = <<>> THEN <<>>
    ELSE << tabs[1].ariaLabel, tabs[1].title >> \o Sources(Tail(tabs))

\* `for (var i = 0; i < tabs.length; i++)`
ScanTabs(tabs) ==
    LET srcs == Sources(tabs)
        hits == {n \in DOMAIN srcs : ~ScanSource(srcs[n]).isNull}
    IN  IF hits = {} THEN NoData ELSE ScanSource(srcs[Least(hits)])

\* decodeURIComponent: %20 is the one escape the modelled URIs use, and any
\* other '%' is malformed (URIError)
RECURSIVE DecodeURIComponent(_)
DecodeURIComponent(s) ==
    IF s = <<>> THEN [ok |-> TRUE, text |-> <<>>]
    ELSE IF s[1] # "%"
    THEN LET rest == DecodeURIComponent(Tail(s))
         IN  [ok |-> rest.ok, text |-> <<s[1]>> \o rest.text]
    ELSE IF Len(s) >= 3 /\ s[2] = "2" /\ s[3] = "0"
    THEN LET rest == DecodeURIComponent(SubstringFrom(s, 3))
         IN  [ok |-> rest.ok, text |-> <<" ">> \o rest.text]
    ELSE [ok |-> FALSE, text |-> <<>>]

FilePrefix ==
    << "f", "i", "l", "e", ":", "/", "/", "/" >>

\* decoded.split('/').join(String.fromCharCode(92))
BackSlashes(s) == [i \in 1..Len(s) |-> IF s[i] = "/" THEN "\\" ELSE s[i]]

\* the body of "Method 2: data-uri" for one attribute value
ScanUri(uri) ==
    IF uri # <<>> /\ IndexOf(uri, FilePrefix) = 0
    THEN LET decoded == DecodeURIComponent(SubstringFrom(uri, FilePrefixLength))
             isWin == Len(decoded.text) > 1 /\ CharAt(decoded.text, 1) = ":"
         IN  IF decoded.ok
             THEN [path |-> IF isWin THEN BackSlashes(decoded.text) ELSE decoded.text,
                   isNull |-> FALSE, source |-> "data-uri", isWindows |-> isWin]
             ELSE NoData
    ELSE NoData

\* `for (var i = 0; i < uris.length; i++)`
ScanUris(uris) ==
    LET hits == {n \in DOMAIN uris : ~ScanUri(uris[n]).isNull}
    IN  IF hits = {} THEN NoData ELSE ScanUri(uris[Least(hits)])

\* the function getWorkspacePath evaluates in the page
WorkspaceScript(page) ==
    IF ~ScanTabs(page.tabs).isNull THEN ScanTabs(page.tabs) ELSE ScanUris(page.uris)

\* filePath.split(sep).filter(Boolean): the runs of characters between
\* separators, sep being /[\\/]+/ for a Windows path and /\/+/ otherwise
IsSeparator(c, isWindows) == c = "/" \/ (isWindows /\ c = "\\")

RECURSIVE SplitPath(_, _, _)
SplitPath(s, isWindows, cur) ==
    IF s = <<>> THEN (IF cur = <<>> THEN <<>> ELSE <<cur>>)
    ELSE IF IsSeparator(s[1], isWindows)
    THEN (IF cur = <<>> THEN <<>> ELSE <<cur>>) \o SplitPath(Tail(s), isWindows, <<>>)
    ELSE SplitPath(Tail(s), isWindows, Append(cur, s[1]))

\* the characters of the words a target title is made of
MyProject ==
    << "M", "y", "P", "r", "o", "j", "e", "c", "t" >>

Spell(tok) == IF tok = "MyProject" THEN MyProject ELSE <<"?">>

\* target.title.match(/^([^-]+)\s*-\s*Antigravity/), then titleMatch[1].trim();
\* no match (null) and an empty name are both <<>>
ProjectName(title) ==
    LET ends == {k \in 1..(Len(title) - 2) :
                    /\ \A i \in 1..k : title[i] # "-"
                    /\ title[k + 1] = "-"
                    /\ title[k + 2] = "Antigravity"}
    IN  IF ends = {} THEN <<>>
        ELSE Join([i \in 1..Least(ends) |-> Spell(title[i])], <<" ">>)

\* what getWorkspacePath returns: null, or a string
NoWorkspace == [isNull |-> TRUE, text |-> <<>>]
Found(text) == [isNull |-> FALSE, text |-> text]

\* `undefined` in a string concatenation
Undefined ==
    << "u", "n", "d", "e", "f", "i", "n", "e", "d" >>

\* A plausible slip: slice(0, i) for slice(0, i + 1) in the segment walk
WorkspaceOfBeforeMatch(title, data) ==
    IF data.isNull \/ data.path = <<>> THEN NoWorkspace
    ELSE LET pathParts == SplitPath(data.path, data.isWindows, <<>>)
             projectName == ProjectName(title)
             matches == {i \in DOMAIN pathParts :
                            LowerChars(pathParts[i]) = LowerChars(projectName)}
             parentParts == SubSeq(pathParts, 1, Len(pathParts) - 1)
             rest == IF parentParts = <<>> THEN <<>> ELSE Tail(parentParts)
         IN  IF projectName # <<>> /\ matches # {}
             THEN IF data.isWindows
                  THEN Found(pathParts[1] \o <<"\\">>
                                \o Join(SubSeq(pathParts, 2, Least(matches) - 1), <<"\\">>))
                  ELSE Found(<<"/">> \o Join(SubSeq(pathParts, 1, Least(matches) - 1), <<"/">>))
             ELSE IF data.isWindows
             THEN Found((IF parentParts = <<>> THEN Undefined ELSE parentParts[1])
                           \o <<"\\">> \o Join(rest, <<"\\">>))
             ELSE Found(<<"/">> \o Join(parentParts, <<"/">>))

\* the lines of getWorkspacePath after the evaluation, data being the value
\* of the response: the segment walk and the fallback; `parentParts[0]` of
\* an empty array is undefined and concatenates as 'undefined'
WorkspaceOf(title, data) ==
    IF data.isNull \/ data.path = <<>> THEN NoWorkspace
    ELSE LET pathParts == SplitPath(data.path, data.isWindows, <<>>)
             projectName == ProjectName(title)
             matches == {i \in DOMAIN pathParts :
                            LowerChars(pathParts[i]) = LowerChars(projectName)}
             parentParts == SubSeq(pathParts, 1, Len(pathParts) - 1)
             rest == IF parentParts = <<>> THEN <<>> ELSE Tail(parentParts)
         IN  IF projectName # <<>> /\ matches # {}
             THEN IF data.isWindows
                  THEN Found(pathParts[1] \o <<"\\">>
                                \o Join(SubSeq(pathParts, 2, Least(matches)), <<"\\">>))
                  ELSE Found(<<"/">> \o Join(SubSeq(pathParts, 1, Least(matches)), <<"/">>))
             ELSE IF data.isWindows
             THEN Found((IF parentParts = <<>> THEN Undefined ELSE parentParts[1])
                           \o <<"\\">> \o Join(rest, <<"\\">>))
             ELSE Found(<<"/">> \o Join(parentParts, <<"/">>))

\* the value as the command returns it
InferWorkspace(title, data) ==
    IF WorkspaceOf(title, data).isNull THEN "null" ELSE Render(WorkspaceOf(title, data).text)

\* the labels and URIs the pages are made of
MaxParts == 2

ExampleLabel ==
    << "/", "U", "s", "e", "r", "s", "/", "a", "l", "i", "c", "e", "/", "M",
       "y", "P", "r", "o", "j", "e", "c", "t", "/", "s", "r", "c", "/", "i",
       "n", "d", "e", "x", ".", "t", "s", " ", "-", " ", "M", "y", "P", "r",
       "o", "j", "e", "c", "t" >>
LowerCaseProjectPath ==
    << "/", "h", "o", "m", "e", "/", "b", "o", "b", "/", "m", "y", "p", "r",
       "o", "j", "e", "c", "t", "/", "a", "p", "p", ".", "j", "s" >>
NestedRootsPath ==
    << "/", "v", "a", "r", "/", "h", "o", "m", "e", "/", "u", "/", "f", ".",
       "t", "s" >>
ColonPrefix ==
    << "N", "o", "t", "e", ":", " " >>
WindowsPath ==
    << "C", ":", "\\", "W", "o", "r", "k", "\\", "M", "y", "P", "r", "o",
       "j", "e", "c", "t", "\\", "a", ".", "t", "s" >>
ProjectSuffix ==
    << " ", "-", " ", "M", "y", "P", "r", "o", "j", "e", "c", "t" >>
CommaSpace ==
    << ",", " " >>
Quote ==
    << "'" >>
FileName ==
    << "m", "a", "i", "n", ".", "t", "s" >>
ShortPath ==
    << "/", "o", "p", "t", "/", "t" >>

Fragments ==
    { LowerCaseProjectPath,
      NestedRootsPath,
      ColonPrefix,
      WindowsPath,
      ProjectSuffix,
      CommaSpace,
      Quote,
      FileName,
      ShortPath }
UnixUri ==
    << "f", "i", "l", "e", ":", "/", "/", "/", "h", "o", "m", "e", "/", "b",
       "o", "b", "/", "m", "y", "%", "2", "0", "a", "p", "p", "/", "a", ".",
       "j", "s" >>
WindowsUri ==
    << "f", "i", "l", "e", ":", "/", "/", "/", "C", ":", "/", "W", "o", "r",
       "k", "/", "M", "y", "P", "r", "o", "j", "e", "c", "t", "/", "a", ".",
       "t", "s" >>
DriveUri ==
    << "f", "i", "l", "e", ":", "/", "/", "/", "C", ":" >>
MalformedUri ==
    << "f", "i", "l", "e", ":", "/", "/", "/", "h", "o", "m", "e", "/", "b",
       "o", "b", "/", "5", "0", "%" >>
EmptyFileUri ==
    << "f", "i", "l", "e", ":", "/", "/", "/" >>
WebUri ==
    << "h", "t", "t", "p", "s", ":", "/", "/", "a", ".", "d", "e", "v", "/",
       "x" >>

Uris == { UnixUri, WindowsUri, DriveUri, MalformedUri, EmptyFileUri, WebUri }

RECURSIVE Concat(_)
Concat(parts) == IF parts = <<>> THEN <<>> ELSE parts[1] \o Concat(Tail(parts))

Labels ==
    {ExampleLabel}
    \cup { Concat(parts) : parts \in UNION { [1..n -> Fragments] : n \in 1..MaxParts } }

\* a page: its tab elements with their aria-label and title attributes (<<>>
\* an attribute that is not there), and the data-uri attribute values
WorkspacePages ==
    { [tabs |-> << [ariaLabel |-> a, title |-> t] >>, uris |-> us] :
        a \in Labels, t \in {<<>>, ShortPath}, us \in {<<>>, <<UnixUri>>} }
    \cup { [tabs |-> ts, uris |-> us] :
             ts \in {<<>>, << [ariaLabel |-> FileName, title |-> <<>>] >>},
             us \in UNION { [1..n -> Uris] : n \in 0..2 } }

\* the pages getWorkspacePath of Spec is run against
FacadeWorkspacePages ==
    { [tabs |-> << [ariaLabel |-> a, title |-> <<>>] >>, uris |-> us] :
        a \in {ExampleLabel, FileName, ColonPrefix \o FileName}, us \in {<<>>, <<WebUri>>} }

\* the page focusInput looks at: is there a textarea, and an element with
\* contenteditable="true"
FocusPages == [textarea : BOOLEAN, editable : BOOLEAN]

\* A plausible slip: the contenteditable strategy tried first
FocusScriptEditableFirst(page) ==
    IF page.editable THEN "{method:'contenteditable',success:true}"
    ELSE IF page.textarea THEN "{method:'textarea',success:true}"
    ELSE "{method:'keyboard_shortcut',success:true}"

\* the function focusInput evaluates in the page
FocusScript(page) ==
    IF page.textarea THEN "{method:'textarea',success:true}"
    ELSE IF page.editable THEN "{method:'contenteditable',success:true}"
    ELSE "{method:'keyboard_shortcut',success:true}"

\* the pages an extraction command of Spec is run against
FacadeChatPages ==
    { << Run(e, n, 0), <<>> >> :
        e \in { [text |-> PlainText(MinTextLength + 1), cls |-> <<"message">>],
                [text |-> [PlainText(100) EXCEPT !.black = TRUE], cls |-> <<"message">>] },
        n \in 0..1 }

NoPage == "none"

PagesOf(op) ==
    CASE op = "getChatMessages" -> FacadeChatPages
      [] op = "getAgentPanelContent" -> PanelPages
      [] op = "getConversationText" -> ConversationPages
      [] op = "focusInput" -> FocusPages
      [] op = "getWorkspacePath" -> FacadeWorkspacePages
      [] OTHER -> {NoPage}

\* result.result.value of a Runtime.evaluate response that carries the value
\* of the command's expression in the page
EvaluationValue(op, page) ==
    CASE op = "getChatMessages" -> ChatScript(page)
      [] op = "getAgentPanelContent" -> PanelScript(page)
      [] op = "getConversationText" -> ConversationScript(page)
      [] op = "focusInput" -> FocusScript(page)
      [] op = "getWorkspacePath" -> WorkspaceScript(page)
      [] OTHER -> "value"

(***************************************************************************)
(* The facade command of Spec; idle in the other specifications.           *)
(***************************************************************************)
NoOutcome == [kind |-> "none", value |-> "none"]
Return(v) == [kind |-> "return", value |-> v]
Throw(v) == [kind |-> "throw", value |-> v]

\* captureScreenshot's options argument: a field the caller left out is
\* "absent" / NoQuality; 0 is a quality a caller can supply
NoQuality == -1
Formats == {"absent", "jpeg"}
Qualities == {NoQuality, 0, 50}
Options == [format : Formats, quality : Qualities]
NoOptions == [format |-> "absent", quality |-> NoQuality]

NoCommand ==
    [op |-> "none", text |-> <<>>, options |-> NoOptions, page |-> NoPage,
     pc |-> "idle", target |-> NoTarget,
     noPage |-> FALSE, sid |-> 0, step |-> 0, awaiting |-> 0,
     result |-> "undef", outcome |-> NoOutcome]

(***************************************************************************)
(* isAvailable and the version query it makes.                             *)
(***************************************************************************)
Browsers == {"Chrome/120", "Electron/28"}

\* what can become of GET /json/version: no answer, a body that is not
\* JSON, the JSON value null, an object without Browser, an object with it
VersionOutcomes ==
    { [kind |-> k, browser |-> "none"] : k \in {"unreachable", "notJSON", "null", "noBrowser"} }
    \cup { [kind |-> "ok", browser |-> b] : b \in Browsers }

\* getVersion(): fetch rejects when the endpoint is unreachable,
\* response.json() rejects when the body is not JSON
GetVersion(o) ==
    CASE o.kind = "unreachable" -> Throw("fetch failed")
      [] o.kind = "notJSON" -> Throw("SyntaxError")
      [] o.kind = "null" -> Return([null |-> TRUE, fields |-> <<>>])
      [] o.kind = "noBrowser" -> Return([null |-> FALSE, fields |-> [Product |-> "x"]])
      [] OTHER -> Return([null |-> FALSE, fields |-> [Browser |-> o.browser]])

\* version.Browser, inside the try block
ReadBrowser(version) ==
    IF version.null THEN Throw("TypeError")
    ELSE IF "Browser" \in DOMAIN version.fields THEN Return(version.fields.Browser)
    ELSE Return("undefined")

\* A plausible slip: the try/catch left out
IsAvailableNoCatch(o) ==
    LET version == GetVersion(o)
    IN  IF version.kind = "throw" THEN version
        ELSE LET browser == ReadBrowser(version.value)
             IN  IF browser.kind = "throw" THEN browser
                 ELSE Return([available |-> TRUE, browser |-> browser.value])

\* isAvailable(), given what becomes of the version query
IsAvailable(o) ==
    LET version == GetVersion(o)
    IN  IF version.kind = "throw"
        THEN Return([available |-> FALSE, error |-> version.value])
        ELSE LET browser == ReadBrowser(version.value)
             IN  IF browser.kind = "throw"
                 THEN Return([available |-> FALSE, error |-> browser.value])
                 ELSE Return([available |-> TRUE, browser |-> browser.value])

\* no function call is being made
NoCall == [fn |-> "none", arg |-> "none", out |-> "none", done |-> FALSE]

(***************************************************************************)
(* SpecTargets: findEditorTarget on every target list within the bound.    *)
(***************************************************************************)
InitTargets ==
    /\ targets \in TargetLists
    /\ found = [called |-> FALSE, editor |-> NoTarget]
    /\ sess = [s \in Sessions |-> NoSession]
    /\ dropped = "none"
    /\ cmd = NoCommand
    /\ call = NoCall

CallFindEditorTarget ==
    /\ ~found.called
    /\ found' = [called |-> TRUE, editor |-> FindEditorTarget(targets)]
    /\ UNCHANGED <<call, targets, sess, dropped, cmd>>

NextTargets == CallFindEditorTarget

SpecTargets == InitTargets /\ [][NextTargets]_vars

(***************************************************************************)
(* SpecSession: callers of the exported connectToTarget use the client     *)
(* directly (send again before a response, close at any time), while the   *)
(* remote may send any message on an open transport.                       *)
(***************************************************************************)
\* the calls direct callers have made so far: connectToTarget, send, close
RECURSIVE CallsUpTo(_)
CallsUpTo(n) ==
    IF n = 0 THEN 0
    ELSE (IF sess[n].conn = "none" THEN 0 ELSE 1)
         + Len(sess[n].promises) + sess[n].closeCalls + CallsUpTo(n - 1)

TotalCalls == CallsUpTo(MaxSessions)

\* sessions are created in index order: slot s is the s-th call
Fresh(s) == sess[s].conn = "none" /\ \A t \in 1..(s - 1) : sess[t].conn # "none"

InitSession ==
    /\ targets = <<>>
    /\ found = [called |-> FALSE, editor |-> NoTarget]
    /\ sess = [s \in Sessions |-> NoSession]
    /\ dropped = "none"
    /\ cmd = NoCommand
    /\ call = NoCall

\* a caller calls connectToTarget(target)
DirectConnect(s) ==
    /\ Fresh(s)
    /\ TotalCalls < MaxCalls
    /\ \E t \in Target : sess' = [sess EXCEPT ![s] = ConnectToTarget(t)]
    /\ UNCHANGED <<call, targets, found, dropped, cmd>>

\* the transport reports open
WsOpen(s) ==
    /\ sess[s].ws = "connecting"
    /\ sess' = [sess EXCEPT ![s] = OnOpen(@)]
    /\ UNCHANGED <<call, targets, found, dropped, cmd>>

\* the transport reports an error
WsError(s) ==
    /\ sess[s].ws \in {"connecting", "open", "closing"}
    /\ sess' = [sess EXCEPT ![s] = OnError(@)]
    /\ UNCHANGED <<call, targets, found, dropped, cmd>>

\* the transport ends: the close handshake completes, or the remote closes
WsClosed(s) ==
    /\ sess[s].ws \in {"open", "closing"}
    /\ sess' = [sess EXCEPT ![s] = OnClosed(@)]
    /\ UNCHANGED <<call, targets, found, dropped, cmd>>

\* a message arrives on the transport of session s
HandleMessage(s, m) ==
    /\ sess[s].ws \in {"open", "closing"}
    /\ sess' = DeliverTo(sess, s, m)
    /\ UNCHANGED <<call, targets, found, cmd>>

\* SpecSession keeps the history of ignored messages
Receive(s) ==
    \E m \in Messages(sess[s].messageId) :
        /\ HandleMessage(s, m)
        /\ dropped' = IF ~Recognized(sess[s], m) /\ DOMAIN sess[s].pending # {}
                      THEN DroppedKind(sess[s], m)
                      ELSE dropped

\* the holder of the client calls client.send
DirectSend(s) ==
    /\ sess[s].conn = "client"
    /\ TotalCalls < MaxCalls
    /\ sess' = [sess EXCEPT ![s] = ClientSend(@, "Any.method", <<>>)]
    /\ UNCHANGED <<call, targets, found, dropped, cmd>>

\* the holder of the client calls client.close
DirectClose(s) ==
    /\ sess[s].conn = "client"
    /\ TotalCalls < MaxCalls
    /\ sess' = CloseSession(sess, s)
    /\ UNCHANGED <<call, targets, found, dropped, cmd>>

NextSession ==
    \E s \in Sessions :
        \/ DirectConnect(s)
        \/ WsOpen(s)
        \/ WsError(s)
        \/ WsClosed(s)
        \/ Receive(s)
        \/ DirectSend(s)
        \/ DirectClose(s)

SpecSession == InitSession /\ [][NextSession]_vars

(***************************************************************************)
(* Spec: one invocation of a facade command.  Every command is             *)
(*   target = await findEditorTarget(); if (!target) ...;                  *)
(*   client = await connectToTarget(target);                               *)
(*   try { await client.send(...) ... return ... } finally { client.close() } *)
(* pc: discover, connect, connecting, try, await, delay, finally, done.    *)
(***************************************************************************)
Ops ==
    {"captureScreenshot", "getPageMetrics", "injectCommand", "injectAndSubmit",
     "focusInput", "getChatMessages", "getAgentPanelContent",
     "getConversationText", "getWorkspacePath"}

Chars == {"a", "b"}
Texts == UNION { [1..n -> Chars] : n \in 0..MaxText }

TakesText(op) == op \in {"injectCommand", "injectAndSubmit"}

\* A plausible slip: one key event per character instead of a pair
NumRequestsOneEventPerChar(op, text) ==
    CASE op = "injectCommand" -> 1 + Len(text)
      [] op = "injectAndSubmit" -> 3
      [] OTHER -> 1

\* the number of client.send calls in the command's try block
NumRequests(op, text) ==
    CASE op = "injectCommand" -> 1 + 2 * Len(text)
      [] op = "injectAndSubmit" -> 3
      [] OTHER -> 1

\* String.prototype.toUpperCase on one character
ToUpperCase(ch) == CASE ch = "a" -> "A" [] ch = "b" -> "B" [] OTHER -> ch

\* `options.format || 'png'`, `options.quality || 80`: the default replaces
\* every falsy value, an absent field as well as '' and 0
FormatOrDefault(f) == IF f = "absent" \/ f = "" THEN "png" ELSE f
QualityOrDefault(q) == IF q = NoQuality \/ q = 0 THEN 80 ELSE q

\* the k-th client.send of the command (k = 1, 2, ...)
Request(op, text, options, k) ==
    CASE op = "captureScreenshot" ->
            [method |-> "Page.captureScreenshot",
             params |-> [format |-> FormatOrDefault(options.format),
                         quality |-> QualityOrDefault(options.quality),
                         captureBeyondViewport |-> FALSE]]
      [] op = "getPageMetrics" ->
            [method |-> "Page.getLayoutMetrics", params |-> <<>>]
      [] op = "injectCommand" /\ k = 1 ->
            [method |-> "Runtime.evaluate", params |-> [expression |-> "focus", returnByValue |-> TRUE]]
      [] op = "injectCommand" /\ k > 1 /\ k % 2 = 0 ->
            [method |-> "Input.dispatchKeyEvent",
             params |-> [type |-> "keyDown", text |-> text[k \div 2], key |-> text[k \div 2],
                         code |-> <<"Key", ToUpperCase(text[k \div 2])>>]]
      [] op = "injectCommand" /\ k > 1 /\ k % 2 = 1 ->
            [method |-> "Input.dispatchKeyEvent",
             params |-> [type |-> "keyUp", key |-> text[k \div 2],
                         code |-> <<"Key", ToUpperCase(text[k \div 2])>>]]
      [] op = "injectAndSubmit" /\ k = 1 ->
            [method |-> "Input.insertText", params |-> [text |-> text]]
      [] op = "injectAndSubmit" /\ k > 1 ->
            [method |-> "Input.dispatchKeyEvent",
             params |-> [type |-> IF k = 2 THEN "keyDown" ELSE "keyUp",
                         key |-> "Enter", code |-> "Enter",
                         windowsVirtualKeyCode |-> 13, nativeVirtualKeyCode |-> 13]]
      [] OTHER ->
            [method |-> "Runtime.evaluate", params |-> [expression |-> op, returnByValue |-> TRUE]]

\* A plausible slip: the settle delay of injectAndSubmit forgotten
DelayAfterInjectCommandOnly(op, k) == op = "injectCommand" /\ k = 1

\* the setTimeout awaited after the first request
DelayAfter(op, k) == op \in {"injectCommand", "injectAndSubmit"} /\ k = 1

\* A plausible slip: `if (!data?.path)` left out, so that a missing path is
\* split
WorkspaceResultNoPathCheck(title, page, r) ==
    IF r = "undef" \/ r = "R1" THEN Throw("TypeError")
    ELSE IF WorkspaceScript(page).isNull THEN Throw("TypeError")
    ELSE Return(InferWorkspace(title, WorkspaceScript(page)))

\* getWorkspacePath: data = result.result?.value, then the inference
WorkspaceResult(title, page, r) ==
    IF r = "undef" THEN Throw("TypeError")
    ELSE IF r = "R1" THEN Return("null")
    ELSE Return(InferWorkspace(title, WorkspaceScript(page)))

\* A plausible slip: the extraction commands read result.result.value
\* without `?.` and without the `||` default
ProcessResultNoDefault(op, text, page, title, r) ==
    CASE op = "captureScreenshot" ->
            IF r = "undef" THEN Throw("TypeError")
            ELSE IF r = "R1" THEN Return("undefined") ELSE Return("data")
      [] op = "getPageMetrics" -> Return(r)
      [] op = "injectCommand" -> Return("{success:true,injected}")
      [] op = "injectAndSubmit" -> Return("{success:true,submitted}")
      [] op = "focusInput" ->
            IF r = "undef" THEN Throw("TypeError")
            ELSE IF r = "R1" THEN Return("{success:false}")
            ELSE Return(EvaluationValue(op, page))
      [] op \in {"getChatMessages", "getAgentPanelContent", "getConversationText"} ->
            IF r = "undef" \/ r = "R1" THEN Throw("TypeError")
            ELSE Return(EvaluationValue(op, page))
      [] OTHER -> WorkspaceResult(title, page, r)

\* what the command does with the result of its last request: "undef" is an
\* absent result, "R1" an object without the field read, "R2" one with it
\* (for an evaluation, the value of the expression in the page)
ProcessResult(op, text, page, title, r) ==
    CASE op = "captureScreenshot" ->      \* result.data
            IF r = "undef" THEN Throw("TypeError")
            ELSE IF r = "R1" THEN Return("undefined") ELSE Return("data")
      [] op = "getPageMetrics" -> Return(r)
      [] op = "injectCommand" -> Return("{success:true,injected}")
      [] op = "injectAndSubmit" -> Return("{success:true,submitted}")
      [] op = "focusInput" ->             \* result.result?.value || {success:false}
            IF r = "undef" THEN Throw("TypeError")
            ELSE IF r = "R1" THEN Return("{success:false}")
            ELSE Return(EvaluationValue(op, page))
      [] op = "getChatMessages" ->
            IF r = "undef" THEN Throw("TypeError")
            ELSE IF r = "R1" THEN Return([messages |-> <<>>, count |-> 0])
            ELSE Return(EvaluationValue(op, page))
      [] op = "getAgentPanelContent" ->
            IF r = "undef" THEN Throw("TypeError")
            ELSE IF r = "R1" THEN Return([found |-> FALSE, content |-> ""])
            ELSE Return(EvaluationValue(op, page))
      [] op = "getConversationText" ->
            IF r = "undef" THEN Throw("TypeError")
            ELSE IF r = "R1" THEN Return([found |-> FALSE])
            ELSE Return(EvaluationValue(op, page))
      [] OTHER -> WorkspaceResult(title, page, r)

Finished(c, outcome) == [c EXCEPT !.pc = "done", !.outcome = outcome]

\* A plausible slip: the `if (!target)` check left out
AfterDiscoveryNoCheck(c, t) == [c EXCEPT !.target = t, !.pc = "connect"]

\* the lines after `await findEditorTarget()`
AfterDiscovery(c, t) ==
    IF t = NoTarget
    THEN IF c.op = "getWorkspacePath"
         THEN Finished(c, Return("null"))
         ELSE Finished(c, Throw("No editor target found"))
    ELSE [c EXCEPT !.target = t, !.pc = "connect"]

\* A plausible slip: the await on connectToTarget left out
AfterConnectNoAwait(c, s, S) ==
    IF S.conn = "NoWebSocketURL"
    THEN Finished([c EXCEPT !.sid = s], Throw("No WebSocket URL for target"))
    ELSE [c EXCEPT !.sid = s, !.pc = "try"]

\* `await connectToTarget(target)`, called: S is the session it set up
AfterConnect(c, s, S) ==
    IF S.conn = "NoWebSocketURL"
    THEN Finished([c EXCEPT !.sid = s], Throw("No WebSocket URL for target"))
    ELSE [c EXCEPT !.sid = s, !.pc = "connecting"]

\* A plausible slip: close() at the end of the try block, no finally
AfterAwaitNoFinally(c, pr) ==
    IF pr.state = "rejected"
    THEN Finished(c, Throw(pr.value))
    ELSE IF c.step + 1 < NumRequests(c.op, c.text)
         THEN [c EXCEPT !.step = @ + 1,
                        !.pc = IF DelayAfter(c.op, c.step + 1) THEN "delay" ELSE "try"]
         ELSE LET out == ProcessResult(c.op, c.text, c.page, c.target.title, pr.value)
              IN  IF out.kind = "throw" THEN Finished([c EXCEPT !.result = pr.value], out)
                  ELSE [c EXCEPT !.step = @ + 1, !.pc = "finally", !.result = pr.value,
                                 !.outcome = out]

\* `await client.send(...)` resumes on the settled promise pr: a rejection
\* and an exception while using the result leave the try block for finally
AfterAwait(c, pr) ==
    IF pr.state = "rejected"
    THEN [c EXCEPT !.pc = "finally", !.outcome = Throw(pr.value)]
    ELSE IF c.step + 1 < NumRequests(c.op, c.text)
         THEN [c EXCEPT !.step = @ + 1,
                        !.pc = IF DelayAfter(c.op, c.step + 1) THEN "delay" ELSE "try"]
         ELSE [c EXCEPT !.step = @ + 1, !.pc = "finally", !.result = pr.value,
                        !.outcome = ProcessResult(c.op, c.text, c.page, c.target.title, pr.value)]

Init ==
    /\ targets = <<>>
    /\ found = [called |-> FALSE, editor |-> NoTarget]
    /\ sess = [s \in Sessions |-> NoSession]
    /\ dropped = "none"
    /\ call = NoCall
    /\ \E op \in Ops : \E text \in Texts : \E options \in Options : \E page \in PagesOf(op) :
          /\ ~TakesText(op) => text = <<>>
          /\ op # "captureScreenshot" => options = NoOptions
          /\ cmd = [NoCommand EXCEPT !.op = op, !.text = text, !.options = options,
                                     !.page = page, !.pc = "discover"]

\* await findEditorTarget(): getTargets answers with some list
Discover ==
    /\ cmd.pc = "discover"
    /\ \E list \in TargetLists :
          cmd' = [AfterDiscovery(cmd, FindEditorTarget(list))
                    EXCEPT !.noPage = \A i \in 1..Len(list) : list[i].type # "page"]
    /\ UNCHANGED <<call, targets, found, sess, dropped>>

\* await findEditorTarget(): the fetch of /json/list fails
DiscoverFails ==
    /\ cmd.pc = "discover"
    /\ cmd' = Finished(cmd, Throw("fetch failed"))
    /\ UNCHANGED <<call, targets, found, sess, dropped>>

\* connectToTarget(target) is called
Connect ==
    /\ cmd.pc = "connect"
    /\ \E s \in Sessions :
          /\ Fresh(s)
          /\ sess' = [sess EXCEPT ![s] = ConnectToTarget(cmd.target)]
          /\ cmd' = AfterConnect(cmd, s, sess'[s])
    /\ UNCHANGED <<call, targets, found, dropped>>

\* connectToTarget's promise resolved with the client
GotClient ==
    /\ cmd.pc = "connecting"
    /\ sess[cmd.sid].conn = "client"
    /\ cmd' = [cmd EXCEPT !.pc = "try"]
    /\ UNCHANGED <<call, targets, found, sess, dropped>>

\* connectToTarget's promise was rejected by the transport's error
ConnectFailed ==
    /\ cmd.pc = "connecting"
    /\ sess[cmd.sid].conn = "ConnectionFailed"
    /\ cmd' = Finished(cmd, Throw("ConnectionFailed"))
    /\ UNCHANGED <<call, targets, found, sess, dropped>>

\* A plausible slip: a client.send that is not awaited unless it is the
\* last one of the try block
SendRequestNoAwait ==
    /\ cmd.pc = "try"
    /\ LET r == Request(cmd.op, cmd.text, cmd.options, cmd.step + 1)
       IN  sess' = [sess EXCEPT ![cmd.sid] = ClientSend(@, r.method, r.params)]
    /\ cmd' = IF cmd.step + 1 < NumRequests(cmd.op, cmd.text)
              THEN [cmd EXCEPT !.step = @ + 1]
              ELSE [cmd EXCEPT !.pc = "await", !.awaiting = Len(sess[cmd.sid].promises) + 1]
    /\ UNCHANGED <<call, targets, found, dropped>>

\* the next client.send of the try block
SendRequest ==
    /\ cmd.pc = "try"
    /\ LET r == Request(cmd.op, cmd.text, cmd.options, cmd.step + 1)
       IN  sess' = [sess EXCEPT ![cmd.sid] = ClientSend(@, r.method, r.params)]
    /\ cmd' = [cmd EXCEPT !.pc = "await", !.awaiting = Len(sess[cmd.sid].promises) + 1]
    /\ UNCHANGED <<call, targets, found, dropped>>

\* A plausible slip: the await raced against a timer that rejects
ResumeOrTimeout ==
    /\ cmd.pc = "await"
    /\ LET pr == sess[cmd.sid].promises[cmd.awaiting]
       IN  IF pr.state = "pending"
           THEN /\ cmd' = [cmd EXCEPT !.pc = "finally", !.outcome = Throw("timeout")]
                /\ UNCHANGED sess
           ELSE /\ cmd' = AfterAwait(cmd, pr)
                /\ sess' = [sess EXCEPT ![cmd.sid].promises[cmd.awaiting] =
                                            [@ EXCEPT !.value = "released", !.by = NoMsg]]
    /\ UNCHANGED <<call, targets, found, dropped>>

\* the awaited promise is settled and the command resumes; nothing refers
\* to the promise afterwards, and its value goes with it
Resume ==
    /\ cmd.pc = "await"
    /\ sess[cmd.sid].promises[cmd.awaiting].state # "pending"
    /\ cmd' = AfterAwait(cmd, sess[cmd.sid].promises[cmd.awaiting])
    /\ sess' = [sess EXCEPT ![cmd.sid].promises[cmd.awaiting] =
                                [@ EXCEPT !.value = "released", !.by = NoMsg]]
    /\ UNCHANGED <<call, targets, found, dropped>>

\* a message arrives while a command runs
CommandReceive(s) ==
    \E m \in Messages(sess[s].messageId) : HandleMessage(s, m) /\ UNCHANGED dropped

\* the settle delay elapses
DelayElapsed ==
    /\ cmd.pc = "delay"
    /\ cmd' = [cmd EXCEPT !.pc = "try"]
    /\ UNCHANGED <<call, targets, found, sess, dropped>>

\* finally { client.close() }, then the command returns or rethrows
Finally ==
    /\ cmd.pc = "finally"
    /\ sess' = CloseSession(sess, cmd.sid)
    /\ cmd' = [cmd EXCEPT !.pc = "done"]
    /\ UNCHANGED <<call, targets, found, dropped>>

Next ==
    \/ Discover
    \/ DiscoverFails
    \/ Connect
    \/ GotClient
    \/ ConnectFailed
    \/ SendRequest
    \/ Resume
    \/ DelayElapsed
    \/ Finally
    \/ \E s \in Sessions : WsOpen(s) \/ WsError(s) \/ WsClosed(s) \/ CommandReceive(s)

Spec == Init /\ [][Next]_vars

(***************************************************************************)
(* SpecCalls: one call of a function that holds no session: a script run   *)
(* in a page, or isAvailable.                                             *)
(***************************************************************************)
InitCalls ==
    /\ targets = <<>>
    /\ found = [called |-> FALSE, editor |-> NoTarget]
    /\ sess = [s \in Sessions |-> NoSession]
    /\ dropped = "none"
    /\ cmd = NoCommand
    /\ \/ \E page \in ChatPages : call = [NoCall EXCEPT !.fn = "chatScript", !.arg = page]
       \/ \E o \in VersionOutcomes : call = [NoCall EXCEPT !.fn = "isAvailable", !.arg = o]
       \/ \E title \in Titles, page \in WorkspacePages :
             call = [NoCall EXCEPT !.fn = "workspace", !.arg = [title |-> title, page |-> page]]

\* the page evaluates the script of getChatMessages
RunChatScript ==
    /\ call.fn = "chatScript" /\ ~call.done
    /\ call' = [call EXCEPT !.out = ChatScript(call.arg), !.done = TRUE]
    /\ UNCHANGED <<targets, found, sess, dropped, cmd>>

\* isAvailable() is called
CallIsAvailable ==
    /\ call.fn = "isAvailable" /\ ~call.done
    /\ call' = [call EXCEPT !.out = IsAvailable(call.arg), !.done = TRUE]
    /\ UNCHANGED <<targets, found, sess, dropped, cmd>>

\* the page evaluates the snippet of getWorkspacePath and the workspace is
\* inferred from its value and the target's title
RunWorkspaceScript ==
    /\ call.fn = "workspace" /\ ~call.done
    /\ call' = [call EXCEPT !.out = [data |-> WorkspaceScript(call.arg.page),
                                     ws |-> WorkspaceOf(call.arg.title,
                                                        WorkspaceScript(call.arg.page))],
                            !.done = TRUE]
    /\ UNCHANGED <<targets, found, sess, dropped, cmd>>

NextCalls == RunChatScript \/ CallIsAvailable \/ RunWorkspaceScript

SpecCalls == InitCalls /\ [][NextCalls]_vars

(***************************************************************************)
(* SpecLauncher: one call of a polling loop of the launcher, waitForServer *)
(* or waitForCDP.  Time is in milliseconds; it passes while the loop       *)
(* awaits its probe or its timer, the other steps take no time.           *)
(***************************************************************************)
PollInterval == 500           \* setTimeout(r, 500)
RunningCheckTimeout == 2000   \* waitForCDP(CDP_PORT, 2000)
ServerTimeout == 8000         \* waitForServer(HTTP_PORT, 8000)
MaxTime == 9000               \* the clock is followed up to here during a probe
TickMs == 250                 \* the clock moves in steps of this size

\* the calls main makes
PollCalls ==
    { [fn |-> "waitForServer", timeout |-> ServerTimeout],
      [fn |-> "waitForCDP", timeout |-> RunningCheckTimeout] }

\* what the probed endpoint does with a probe it answers: a response with
\* res.ok, a response without, or a refused connection (fetch rejects)
Answers == {"ok", "notOk", "refused"}

InitLauncher ==
    /\ targets = <<>>
    /\ found = [called |-> FALSE, editor |-> NoTarget]
    /\ sess = [s \in Sessions |-> NoSession]
    /\ dropped = "none"
    /\ cmd = NoCommand
    /\ \E c \in PollCalls :
          call = [fn |-> c.fn, arg |-> c.timeout, pc |-> "while", start |-> 0, now |-> 0,
                  wake |-> 0, answer |-> "none", out |-> "none", done |-> FALSE]

\* `while (Date.now() - start < timeout)`: the probe is sent, or the loop
\* is left and false returned
LoopTest ==
    /\ call.pc = "while"
    /\ call' = IF call.now - call.start < call.arg
               THEN [call EXCEPT !.pc = "fetch"]
               ELSE [call EXCEPT !.pc = "returned", !.out = "false", !.done = TRUE]
    /\ UNCHANGED <<targets, found, sess, dropped, cmd>>

\* the awaited fetch settles: `if (res.ok) return true`, else (also after
\* the empty catch) the timer is started
ProbeAnswered ==
    /\ call.pc = "fetch"
    /\ \E a \in Answers :
          call' = IF a = "ok"
                  THEN [call EXCEPT !.pc = "returned", !.answer = a, !.out = "true",
                                    !.done = TRUE]
                  ELSE [call EXCEPT !.pc = "sleep", !.answer = a,
                                    !.wake = call.now + PollInterval]
    /\ UNCHANGED <<targets, found, sess, dropped, cmd>>

\* the timer of `await new Promise(r => setTimeout(r, 500))` fires
TimerFires ==
    /\ call.pc = "sleep"
    /\ call.now >= call.wake
    /\ call' = [call EXCEPT !.pc = "while"]
    /\ UNCHANGED <<targets, found, sess, dropped, cmd>>

\* time passes while the loop awaits the probe or the timer
Tick ==
    /\ \/ call.pc = "fetch" /\ call.now < MaxTime
       \/ call.pc = "sleep" /\ call.now < call.wake
    /\ call' = [call EXCEPT !.now = @ + TickMs]
    /\ UNCHANGED <<targets, found, sess, dropped, cmd>>

NextLauncher == LoopTest \/ ProbeAnswered \/ TimerFires \/ Tick

\* the loop runs on, timers fire and time passes; fetch is called without a
\* signal or a deadline, so nothing makes an unanswered probe settle
SpecLauncher ==
    /\ InitLauncher /\ [][NextLauncher]_vars
    /\ WF_vars(LoopTest) /\ WF_vars(TimerFires) /\ WF_vars(Tick)

(***************************************************************************)
(* SpecMain: one run of the launcher's main.  The polling loops are the    *)
(* actions of SpecLauncher, run on the loop fields of `call`; time is      *)
(* counted from the start of the loop that is running.                     *)
(***************************************************************************)
LaunchTimeout == 15000        \* waitForCDP(CDP_PORT, 15000)
MaxPaths == 2                 \* entries of ANTIGRAVITY_PATHS[os] that are tried

\* which entries of ANTIGRAVITY_PATHS[os] exist, and whether the system
\* command (where / which) names an existing file
Installations == [paths : UNION { [1..n -> BOOLEAN] : n \in 0..MaxPaths }, viaCommand : BOOLEAN]

\* findAntigravityPath: 0 is null, p > 0 the p-th listed path, -1 the path
\* the system command printed
FindAntigravityPath(inst) ==
    LET existing == {p \in DOMAIN inst.paths : inst.paths[p]}
    IN  IF existing # {} THEN Least(existing)
        ELSE IF inst.viaCommand THEN -1 ELSE 0

NoRun ==
    [fn |-> "main", step |-> "start", steps |-> <<>>, scriptExists |-> TRUE,
     inst |-> [paths |-> <<>>, viaCommand |-> FALSE],
     portInUse |-> "unknown", path |-> 0, cdpAlreadyRunning |-> "unknown",
     serverSpawns |-> 0, antigravitySpawns |-> 0, exit |-> "none", banner |-> FALSE,
     arg |-> 0, pc |-> "idle", start |-> 0, now |-> 0, wake |-> 0,
     answer |-> "none", out |-> "none", done |-> FALSE]

\* a polling loop is called with the given timeout
StartLoop(c, timeout) ==
    [c EXCEPT !.arg = timeout, !.pc = "while", !.start = 0, !.now = 0, !.wake = 0,
              !.answer = "none", !.out = "none", !.done = FALSE]

\* the loop has returned and its result has been used
EndLoop(c) ==
    [c EXCEPT !.arg = 0, !.pc = "idle", !.start = 0, !.now = 0, !.wake = 0,
              !.answer = "none", !.out = "none", !.done = FALSE]

\* process.exit(1)
Exit(c) == [c EXCEPT !.step = "exited", !.exit = "1"]

InitMain ==
    /\ targets = <<>>
    /\ found = [called |-> FALSE, editor |-> NoTarget]
    /\ sess = [s \in Sessions |-> NoSession]
    /\ dropped = "none"
    /\ cmd = NoCommand
    /\ \E e \in BOOLEAN, inst \in Installations :
          call = [NoRun EXCEPT !.scriptExists = e, !.inst = inst]

\* Step 1: the server script is looked for
ServerStep ==
    /\ call.fn = "main" /\ call.step = "start"
    /\ call' = IF call.scriptExists
               THEN [call EXCEPT !.steps = Append(@, "server"), !.step = "portCheck"]
               ELSE Exit([call EXCEPT !.steps = Append(@, "server")])
    /\ UNCHANGED <<targets, found, sess, dropped, cmd>>

\* `if (await isPortInUse(HTTP_PORT))`: else the server is spawned and
\* waitForServer called
PortChecked ==
    /\ call.fn = "main" /\ call.step = "portCheck"
    /\ \E inUse \in BOOLEAN :
          call' = IF inUse
                  THEN [call EXCEPT !.portInUse = "yes", !.step = "find"]
                  ELSE [StartLoop(call, ServerTimeout) EXCEPT
                           !.portInUse = "no", !.serverSpawns = @ + 1,
                           !.step = "waitServer"]
    /\ UNCHANGED <<targets, found, sess, dropped, cmd>>

\* waitForServer returned: a log line either way
ServerWaited ==
    /\ call.fn = "main" /\ call.step = "waitServer" /\ call.pc = "returned"
    /\ call' = [EndLoop(call) EXCEPT !.step = "find"]
    /\ UNCHANGED <<targets, found, sess, dropped, cmd>>

\* Step 2: findAntigravityPath, and exit when it gave nothing
FindStep ==
    /\ call.fn = "main" /\ call.step = "find"
    /\ call' = LET path == FindAntigravityPath(call.inst)
                   c == [call EXCEPT !.steps = Append(@, "find"), !.path = path]
               IN  IF path = 0 THEN Exit(c) ELSE [c EXCEPT !.step = "cdp"]
    /\ UNCHANGED <<targets, found, sess, dropped, cmd>>

\* Step 3: waitForCDP(CDP_PORT, 2000) is called
CdpStep ==
    /\ call.fn = "main" /\ call.step = "cdp"
    /\ call' = [StartLoop(call, RunningCheckTimeout) EXCEPT
                   !.steps = Append(@, "cdp"), !.step = "waitCdp"]
    /\ UNCHANGED <<targets, found, sess, dropped, cmd>>

\* A plausible slip: Antigravity is launched whatever the probe said
CdpCheckedAlwaysLaunch ==
    /\ call.fn = "main" /\ call.step = "waitCdp" /\ call.pc = "returned"
    /\ call' = [StartLoop(call, LaunchTimeout) EXCEPT
                   !.cdpAlreadyRunning = call.out,
                   !.steps = Append(@, "launch"),
                   !.antigravitySpawns = @ + 1, !.step = "waitLaunch"]
    /\ UNCHANGED <<targets, found, sess, dropped, cmd>>

\* `if (cdpAlreadyRunning)`: else Step 4, Antigravity is spawned and
\* waitForCDP(CDP_PORT, 15000) called
CdpChecked ==
    /\ call.fn = "main" /\ call.step = "waitCdp" /\ call.pc = "returned"
    /\ call' = IF call.out = "true"
               THEN [EndLoop(call) EXCEPT !.cdpAlreadyRunning = "true", !.step = "status"]
               ELSE [StartLoop(call, LaunchTimeout) EXCEPT
                        !.cdpAlreadyRunning = "false",
                        !.steps = Append(@, "launch"),
                        !.antigravitySpawns = @ + 1, !.step = "waitLaunch"]
    /\ UNCHANGED <<targets, found, sess, dropped, cmd>>

\* the second waitForCDP returned: a log line either way
LaunchWaited ==
    /\ call.fn = "main" /\ call.step = "waitLaunch" /\ call.pc = "returned"
    /\ call' = [EndLoop(call) EXCEPT !.step = "status"]
    /\ UNCHANGED <<targets, found, sess, dropped, cmd>>

\* Step 5: the status check sends its probe of the CDP port
StatusStep ==
    /\ call.fn = "main" /\ call.step = "status"
    /\ call' = [call EXCEPT !.steps = Append(@, "status"), !.step = "statusCdp"]
    /\ UNCHANGED <<targets, found, sess, dropped, cmd>>

\* the fetch of /json/version settles (a failure is caught and logged), and
\* the probe of the HTTP port is sent
StatusCdpAnswered ==
    /\ call.fn = "main" /\ call.step = "statusCdp"
    /\ \E a \in Answers : call' = [call EXCEPT !.step = "statusHttp", !.answer = a]
    /\ UNCHANGED <<targets, found, sess, dropped, cmd>>

\* the fetch of /api/status settles, and the banner is printed
StatusHttpAnswered ==
    /\ call.fn = "main" /\ call.step = "statusHttp"
    /\ \E a \in Answers :
          call' = [call EXCEPT !.step = "done", !.answer = a, !.banner = TRUE]
    /\ UNCHANGED <<targets, found, sess, dropped, cmd>>

NextMain ==
    \/ ServerStep
    \/ PortChecked
    \/ ServerWaited
    \/ FindStep
    \/ CdpStep
    \/ CdpChecked
    \/ LaunchWaited
    \/ StatusStep
    \/ StatusCdpAnswered
    \/ StatusHttpAnswered
    \/ LoopTest
    \/ ProbeAnswered
    \/ TimerFires
    \/ Tick

\* main and its loops run on, child_process callbacks come, timers fire and
\* time passes; no fetch is given a signal or a deadline, so nothing makes
\* an unanswered probe settle
SpecMain ==
    /\ InitMain /\ [][NextMain]_vars
    /\ WF_vars(ServerStep) /\ WF_vars(PortChecked) /\ WF_vars(ServerWaited)
    /\ WF_vars(FindStep) /\ WF_vars(CdpStep) /\ WF_vars(CdpChecked)
    /\ WF_vars(LaunchWaited) /\ WF_vars(StatusStep)
    /\ WF_vars(LoopTest) /\ WF_vars(TimerFires) /\ WF_vars(Tick)

(***************************************************************************)
(* Claims about the session channel, checked under SpecSession.            *)
(***************************************************************************)
Promises(s) == sess[s].promises

\* C1: with any number of requests outstanding on a session and the
\* responses arriving in any order, a promise returned by send is settled
\* only by a message carrying the identifier that send put on the wire, and
\* it resolves with that message's result.
C1_OwnResponse ==
    \A s \in Sessions : \A p \in DOMAIN Promises(s) :
        LET pr == Promises(s)[p]
        IN  /\ pr.state # "pending" => pr.by.id = pr.id
            /\ pr.state = "resolved" => pr.by.error = "absent" /\ pr.value = pr.by.result

\* two requests were outstanding together and the second was answered first
C1_Witness ==
    \E s \in Sessions :
        /\ Len(Promises(s)) >= 2
        /\ Promises(s)[1].state = "pending"
        /\ Promises(s)[2].state = "resolved"
        /\ Promises(s)[2].value = "R2"

\* C3 (as claimed): once the transport of a session is closed, no request
\* issued on it is still pending: each was failed.
C3_PendingFailOnClose ==
    \A s \in Sessions :
        sess[s].ws = "closed" =>
            \A p \in DOMAIN Promises(s) : Promises(s)[p].state # "pending"

\* C4: for every promise, resolve/reject is called at most once; a settled
\* promise never changes again, and the step that settles a promise removes
\* its identifier from the pending table.
C4_AtMostOnce ==
    [][\A s \in Sessions : \A p \in DOMAIN Promises(s) :
          LET old == Promises(s)[p]
              new == sess'[s].promises[p]
          IN  /\ new.calls <= 1
              /\ old.state # "pending" => new = old
              /\ (old.state = "pending" /\ new.state # "pending")
                    => old.id \notin DOMAIN sess'[s].pending]_vars

\* a second message with an already answered identifier arrived while
\* another request was pending
C4_Witness ==
    /\ dropped = "late"
    /\ \E s \in Sessions : \E p \in DOMAIN Promises(s) :
          /\ Promises(s)[p].state # "pending"
          /\ Promises(s)[p].calls = 1
          /\ Promises(s)[p].id \notin DOMAIN sess[s].pending
          /\ DOMAIN sess[s].pending # {}

\* the messages that can arrive on session s in the current state
Arriving(s) ==
    IF sess[s].ws \in {"open", "closing"} THEN Messages(sess[s].messageId) ELSE {}

\* C5: in every reachable state, handling a message without an identifier,
\* or with an identifier that is not pending on the session, changes neither
\* the pending table nor any promise of the session.
C5_UnknownIgnored ==
    \A s \in Sessions : \A m \in Arriving(s) :
        (m.id = NoIdField \/ m.id \notin DOMAIN sess[s].pending)
        => LET after == DeliverTo(sess, s, m)[s]
           IN  /\ after.pending = sess[s].pending
               /\ after.promises = sess[s].promises

\* a message with an identifier never issued arrived while a request was
\* pending, and the request is still pending
C5_Witness ==
    /\ dropped \in {"noid", "unknown"}
    /\ \E s \in Sessions : \E p \in DOMAIN Promises(s) :
          /\ Promises(s)[p].state = "pending"
          /\ Promises(s)[p].id \in DOMAIN sess[s].pending

\* C6: in every reachable state, handling a response whose identifier is
\* pending settles exactly the promise registered under it: rejected with
\* error.message when the response has an error, resolved with result when
\* it has none; every other promise and pending entry stays as it is.
C6_ErrorFailsOnlyItsRequest ==
    \A s \in Sessions : \A m \in Arriving(s) :
        m.id \in DOMAIN sess[s].pending
        => LET p == sess[s].pending[m.id]
               after == DeliverTo(sess, s, m)[s]
               new == after.promises[p]
           IN  /\ Promises(s)[p].state = "pending"
               /\ new.id = m.id
               /\ m.error # "absent" => new.state = "rejected" /\ new.value = m.error
               /\ m.error = "absent" => new.state = "resolved" /\ new.value = m.result
               /\ \A q \in DOMAIN Promises(s) \ {p} : after.promises[q] = Promises(s)[q]
               /\ DOMAIN after.pending = DOMAIN sess[s].pending \ {m.id}
               /\ \A k \in DOMAIN after.pending : after.pending[k] = sess[s].pending[k]

\* one request failed with the message of its error response while another
\* request of the same session stayed pending
C6_Witness ==
    \E s \in Sessions : \E p, q \in DOMAIN Promises(s) :
        /\ Promises(s)[p].state = "rejected"
        /\ Promises(s)[p].value = "E2"
        /\ Promises(s)[p].by.id = Promises(s)[p].id
        /\ Promises(s)[q].state = "pending"
        /\ Promises(s)[q].id \in DOMAIN sess[s].pending

\* C8: each session counts its own identifiers from 1, and in every
\* reachable state a message arriving on one session, or a close of one
\* session, changes no other session (transport, counter, pending table,
\* promises).
C8_SessionsIsolated ==
    \A s \in Sessions :
        /\ sess[s].conn = "client" => sess[s].messageId = Len(Promises(s)) + 1
        /\ \A m \in Arriving(s) : \A t \in Sessions \ {s} :
              DeliverTo(sess, s, m)[t] = sess[t]
        /\ sess[s].conn = "client"
              => \A t \in Sessions \ {s} : CloseSession(sess, s)[t] = sess[t]

\* two sessions both issued identifier 1; the first got its response, the
\* second is open with its request 1 still pending
C8_Witness ==
    \E s, t \in Sessions :
        /\ s # t
        /\ Len(Promises(s)) >= 1 /\ Len(Promises(t)) >= 1
        /\ Promises(s)[1].id = 1 /\ Promises(t)[1].id = 1
        /\ Promises(s)[1].state = "resolved"
        /\ Promises(s)[1].by.id = 1
        /\ Promises(t)[1].state = "pending"
        /\ 1 \in DOMAIN sess[t].pending
        /\ sess[t].ws = "open"

\* C11: connectToTarget on a target without a webSocketDebuggerUrl fails
\* with 'No WebSocket URL for target' and creates no transport; with one it
\* creates a transport and stays unsettled only while that transport is
\* connecting; an error reported before open fails it and it never yields a
\* client afterwards; once settled (client or failure) its result never
\* changes.
C11_ConnectSettlesOnce ==
    [][\A s \in Sessions :
             /\ (sess[s].conn = "none" /\ sess'[s].conn # "none")
                   => \E t \in Target :
                         /\ sess'[s] = ConnectToTarget(t)
                         /\ IF t.wsUrl
                            THEN sess'[s].conn = "pending" /\ sess'[s].ws = "connecting"
                            ELSE sess'[s].conn = "NoWebSocketURL" /\ sess'[s].ws = "none"
             /\ sess[s].conn = "NoWebSocketURL" => sess'[s] = sess[s] /\ sess[s].ws = "none"
             /\ sess[s].conn = "pending" => sess[s].ws = "connecting"
             /\ (sess[s].ws = "connecting" /\ sess'[s].ws = "closed")
                   => sess'[s].conn = "ConnectionFailed"
             /\ sess[s].conn \in {"client", "ConnectionFailed"}
                   => sess'[s].conn = sess[s].conn
             /\ sess'[s].conn = "client" => sess[s].conn \in {"pending", "client"}]_vars

\* one connectToTarget failed for want of a url, another because its
\* transport reported an error before open
C11_Witness ==
    \E s, t \in Sessions :
        /\ sess[s].conn = "NoWebSocketURL" /\ sess[s].ws = "none"
        /\ sess[t].conn = "ConnectionFailed" /\ sess[t].ws = "closed"

\* C13: a second or later client.close() on a session changes nothing but
\* the count of calls: the transport, the identifier counter, the pending
\* table, the promises and the result of connectToTarget are as the first
\* close left them (close has no failing outcome on a transport that has
\* been open).
C13_CloseIdempotent ==
    [][\A s \in Sessions :
          (sess[s].closeCalls >= 1 /\ sess'[s].closeCalls > sess[s].closeCalls)
          => sess'[s] = [sess[s] EXCEPT !.closeCalls = @ + 1]]_vars

\* close was called twice while the transport was still closing and a
\* request was pending
C13_Witness ==
    \E s \in Sessions :
        /\ sess[s].closeCalls >= 2
        /\ sess[s].ws = "closing"
        /\ DOMAIN sess[s].pending # {}

\* C25: on every session the k-th call of send issues identifier k, so the
\* identifiers of a session start at 1, increase strictly and are never
\* issued twice, whatever the interleaving of sends and responses; a request
\* on the wire carries the identifier of its send; and every key of the
\* pending table is an identifier already issued on the session.
C25_IdentifiersCountUp ==
    \A s \in Sessions :
        /\ \A k \in DOMAIN Promises(s) : Promises(s)[k].id = k
        /\ \A i, j \in DOMAIN sess[s].wire :
              i < j => sess[s].wire[i].id < sess[s].wire[j].id
        /\ \A i \in DOMAIN sess[s].wire : sess[s].wire[i].id \in DOMAIN Promises(s)
        /\ \A k \in DOMAIN sess[s].pending :
              /\ k \in 1..Len(Promises(s))
              /\ Promises(s)[sess[s].pending[k]].id = k

\* a send, its response, and a second send: the second request carries
\* identifier 2 and is the only pending one
C25_Witness ==
    \E s \in Sessions :
        /\ Len(sess[s].wire) = 2
        /\ sess[s].wire[1].id = 1 /\ sess[s].wire[2].id = 2
        /\ Promises(s)[1].state = "rejected"
        /\ DOMAIN sess[s].pending = {2}

(***************************************************************************)
(* Claims about the command facade, checked under Spec.                    *)
(***************************************************************************)
\* the command holds a client: connectToTarget returned a session to it
HasClient == cmd.sid # 0 /\ sess[cmd.sid].conn = "client"

\* C2: close is never called twice on a session, it is not called while the
\* command is still in its try block, and a command that was given a client
\* has called close exactly once when it returns or throws - after success,
\* after a remote error, and after an exception while using a result.
C2_ClosedExactlyOnce ==
    /\ \A s \in Sessions : sess[s].closeCalls <= 1
    /\ (HasClient /\ cmd.pc # "done") => sess[cmd.sid].closeCalls = 0
    /\ (HasClient /\ cmd.pc = "done") => sess[cmd.sid].closeCalls = 1

\* a command threw while using the result of its request, and its session
\* was closed once
C2_Witness ==
    /\ cmd.pc = "done"
    /\ cmd.outcome.kind = "throw"
    /\ cmd.outcome.value = "TypeError"
    /\ sess[cmd.sid].conn = "client"
    /\ sess[cmd.sid].closeCalls = 1

\* C7: a command's steps come in the order discovery, open one session,
\* requests, close, return: a transport is created only after discovery
\* gave a target and while no other session exists; send is called only
\* between the transport's open report and close; close is called as the
\* last step before the command ends, and a command that held a client ends
\* only with its session closed.
C7_CommandOrder ==
    [][\A s \in Sessions :
          /\ (sess[s].ws = "none" /\ sess'[s].ws # "none")
                => /\ cmd.pc = "connect"
                   /\ cmd.target # NoTarget
                   /\ \A t \in Sessions : sess[t].ws = "none"
          /\ sess'[s].messageId > sess[s].messageId /\ sess[s].messageId > 0
                => /\ cmd.pc = "try" /\ cmd.sid = s
                   /\ sess[s].conn = "client"
                   /\ sess[s].closeCalls = 0
          /\ sess'[s].wire # sess[s].wire
                => sess[s].ws = "open" /\ sess[s].closeCalls = 0
          /\ sess'[s].closeCalls # sess[s].closeCalls
                => cmd.sid = s /\ cmd.pc = "finally" /\ cmd'.pc = "done"
          /\ (cmd.pc # "done" /\ cmd'.pc = "done" /\ cmd.sid = s
                /\ sess[s].conn = "client")
                => sess'[s].closeCalls = 1 /\ sess'[s].ws # "open"]_vars

\* injectAndSubmit ran to its return: three requests on one session, which
\* is closed, and no second session
C7_Witness ==
    /\ cmd.op = "injectAndSubmit"
    /\ cmd.pc = "done"
    /\ cmd.outcome.kind = "return"
    /\ Len(sess[cmd.sid].wire) = 3
    /\ sess[cmd.sid].closeCalls = 1
    /\ \A t \in Sessions \ {cmd.sid} : sess[t] = NoSession

\* the session of the running command, once it has one
CmdSession == sess[cmd.sid]

\* the requests of the command that reached the wire are the first ones of
\* `expected`, numbered from 1
WirePrefixOf(expected) ==
    /\ Len(CmdSession.wire) <= Len(expected)
    /\ \A i \in 1..Len(CmdSession.wire) :
          CmdSession.wire[i] = [id |-> i, method |-> expected[i].method,
                                params |-> expected[i].params]

\* what injectAndSubmit(text) puts on the wire when it runs to its end
SubmitRequests(text) ==
    << [method |-> "Input.insertText", params |-> [text |-> text]],
       [method |-> "Input.dispatchKeyEvent",
        params |-> [type |-> "keyDown", key |-> "Enter", code |-> "Enter",
                    windowsVirtualKeyCode |-> 13, nativeVirtualKeyCode |-> 13]],
       [method |-> "Input.dispatchKeyEvent",
        params |-> [type |-> "keyUp", key |-> "Enter", code |-> "Enter",
                    windowsVirtualKeyCode |-> 13, nativeVirtualKeyCode |-> 13]] >>

\* a request is sent only from the try block, one at a time, and only when
\* every earlier request of the session was answered without error
SendsOneByOne ==
    Len(sess'[cmd.sid].promises) > Len(CmdSession.promises)
    => /\ cmd.pc = "try"
       /\ Len(sess'[cmd.sid].promises) = Len(CmdSession.promises) + 1
       /\ \A p \in DOMAIN CmdSession.promises : CmdSession.promises[p].state = "resolved"

\* C14: injectAndSubmit(text) sends Input.insertText with the text, then an
\* Enter keyDown, then an Enter keyUp, and nothing else; each is sent only
\* after the response to the one before, and the keyDown only after the
\* settle delay; a failed request is the last one sent, the session is then
\* closed and the command throws; it returns {success:true} only after all
\* three were answered.
C14_InjectAndSubmitOrder ==
    [][(cmd.op = "injectAndSubmit" /\ cmd.sid # 0) =>
          /\ WirePrefixOf(SubmitRequests(cmd.text))
          /\ Len(CmdSession.promises) <= 3
          /\ SendsOneByOne
          /\ (cmd'.step = 1 /\ cmd.pc # "try" /\ cmd'.pc = "try") => cmd.pc = "delay"
          /\ \A p \in DOMAIN CmdSession.promises :
                CmdSession.promises[p].state = "rejected"
                => /\ Len(CmdSession.promises) = p
                   /\ cmd.pc \in {"await", "finally", "done"}
                   /\ cmd.pc # "await" => cmd.outcome.kind = "throw"
                   /\ cmd.pc = "done" => CmdSession.closeCalls = 1
          /\ (cmd.pc = "done" /\ cmd.outcome.kind = "return")
                => /\ cmd.outcome = Return("{success:true,submitted}")
                   /\ Len(CmdSession.wire) = 3
                   /\ \A p \in 1..3 : CmdSession.promises[p].state = "resolved"]_vars

\* the Enter keyDown of injectAndSubmit was answered with an error: the
\* keyUp was never sent, the session is closed and the command threw
C14_Witness ==
    /\ cmd.op = "injectAndSubmit"
    /\ cmd.pc = "done"
    /\ cmd.outcome = Throw("E1")
    /\ Len(CmdSession.wire) = 2
    /\ CmdSession.promises[1].state = "resolved"
    /\ CmdSession.promises[2].state = "rejected"
    /\ CmdSession.closeCalls = 1

\* what injectCommand(text) puts on the wire after the focus evaluation
RECURSIVE KeyEvents(_)
KeyEvents(text) ==
    IF text = <<>> THEN <<>>
    ELSE << [method |-> "Input.dispatchKeyEvent",
             params |-> [type |-> "keyDown", text |-> Head(text), key |-> Head(text),
                         code |-> <<"Key", ToUpperCase(Head(text))>>]],
            [method |-> "Input.dispatchKeyEvent",
             params |-> [type |-> "keyUp", key |-> Head(text),
                         code |-> <<"Key", ToUpperCase(Head(text))>>]] >>
         \o KeyEvents(Tail(text))

FocusRequest ==
    [method |-> "Runtime.evaluate",
     params |-> [expression |-> "focus", returnByValue |-> TRUE]]

\* C15: injectCommand(text) sends the focus evaluation and then, for each
\* character in text order, a keyDown followed by a keyUp of that character,
\* and nothing else; each request is sent only after the one before was
\* answered; it returns only after 2 * Len(text) key events, and an empty
\* text sends none.
C15_InjectCommandKeyPairs ==
    [][(cmd.op = "injectCommand" /\ cmd.sid # 0) =>
          /\ WirePrefixOf(<<FocusRequest>> \o KeyEvents(cmd.text))
          /\ Len(CmdSession.promises) <= 1 + 2 * Len(cmd.text)
          /\ SendsOneByOne
          /\ cmd.text = <<>> => Len(CmdSession.promises) <= 1
          /\ (cmd.pc = "done" /\ cmd.outcome.kind = "return")
                => /\ Len(CmdSession.wire) = 1 + 2 * Len(cmd.text)
                   /\ \A p \in DOMAIN CmdSession.promises :
                         CmdSession.promises[p].state = "resolved"]_vars

\* injectCommand typed two different characters and returned: five requests
C15_Witness ==
    /\ cmd.op = "injectCommand"
    /\ cmd.text = <<"a", "b">>
    /\ cmd.pc = "done"
    /\ cmd.outcome.kind = "return"
    /\ Len(CmdSession.wire) = 5
    /\ CmdSession.wire[4].params.type = "keyDown"
    /\ CmdSession.wire[4].params.key = "b"

\* C16 (as claimed): captureScreenshot sends one Page.captureScreenshot
\* request whose format and quality are the caller's options.format and
\* options.quality whenever the caller supplied them (quality 0 included)
\* and 'png' and 80 when the caller left them out, and it returns the data
\* field of the response.
C16_ScreenshotUsesOptions ==
    (cmd.op = "captureScreenshot" /\ cmd.sid # 0) =>
        /\ Len(CmdSession.promises) <= 1
        /\ \A i \in DOMAIN CmdSession.wire :
              /\ CmdSession.wire[i].method = "Page.captureScreenshot"
              /\ CmdSession.wire[i].params.format =
                    IF cmd.options.format = "absent" THEN "png" ELSE cmd.options.format
              /\ CmdSession.wire[i].params.quality =
                    IF cmd.options.quality = NoQuality THEN 80 ELSE cmd.options.quality
        /\ (cmd.pc = "done" /\ cmd.outcome.kind = "return")
              => Len(CmdSession.wire) = 1 /\ cmd.outcome.value \in {"data", "undefined"}

\* the command is suspended in `await client.send(...)` on a request that
\* has no response yet
AwaitingResponse ==
    /\ cmd.pc = "await"
    /\ CmdSession.promises[cmd.awaiting].state = "pending"

\* C17: a command that awaits a request stays where it is for as long as
\* the response has not arrived: no step lets it return, throw or close its
\* session, whatever else happens (time passing, other messages, the
\* transport closing); and once the transport is closed the response can
\* no longer arrive.
C17_NoTimeout ==
    [][/\ (AwaitingResponse /\ sess'[cmd.sid].promises[cmd.awaiting].state = "pending")
            => /\ cmd' = cmd
               /\ cmd.outcome = NoOutcome
               /\ sess'[cmd.sid].closeCalls = 0
       /\ (AwaitingResponse /\ CmdSession.ws = "closed")
            => /\ sess'[cmd.sid].promises[cmd.awaiting].state = "pending"
               /\ sess'[cmd.sid].ws = "closed"]_vars

\* getPageMetrics awaits its request on a transport that has closed: the
\* response will never arrive, the command has not ended and close was not
\* called
C17_Witness ==
    /\ cmd.op = "getPageMetrics"
    /\ AwaitingResponse
    /\ CmdSession.ws = "closed"
    /\ Len(CmdSession.wire) = 1
    /\ CmdSession.closeCalls = 0
    /\ cmd.outcome = NoOutcome

ExtractionOps == {"getChatMessages", "getAgentPanelContent", "getConversationText"}

\* C18 (as claimed): when the transport of an extraction command is closed
\* by the remote side or reports an error while the command awaits a
\* response, the awaited request is failed, so that the command raises: no
\* request that was sent is left pending on a closed transport.
C18_ChannelFailureRaises ==
    (cmd.op \in ExtractionOps /\ cmd.sid # 0 /\ CmdSession.ws = "closed"
        /\ Len(CmdSession.promises) = 1 /\ Len(CmdSession.wire) = 1)
    => CmdSession.promises[1].state # "pending"

\* the evaluation request of the command was answered with a result object
EvaluationSucceeded ==
    /\ cmd.pc = "await"
    /\ CmdSession.promises[cmd.awaiting].state = "resolved"
    /\ CmdSession.promises[cmd.awaiting].value \in {"R1", "R2"}

\* the response carries no value
NoValue == CmdSession.promises[cmd.awaiting].value = "R1"

\* the result that stands for "nothing found"
EmptyResult(op, v) ==
    IF op = "getChatMessages" THEN v.messages = <<>> /\ v.count = 0
    ELSE ~v.found

\* no candidate element, or every candidate rejected
NoCandidateAccepted(op, page) ==
    CASE op = "getChatMessages" ->
            \A g \in DOMAIN page : \A i \in DOMAIN page[g] : ~Accepted(page[g][i].text)
      [] op = "getAgentPanelContent" -> page.panel = 0
      [] OTHER ->
            ~page.right /\ \A k \in DOMAIN page.markdown : page.markdown[k].len <= 30

\* no candidate element for getAgentPanelContent and getConversationText;
\* no candidate element or every candidate rejected for getChatMessages
NoCandidate(op, page) ==
    CASE op = "getChatMessages" ->
            \A g \in DOMAIN page : \A i \in DOMAIN page[g] : ~Accepted(page[g][i].text)
      [] op = "getAgentPanelContent" -> page.panel = 0
      [] OTHER -> ~page.right /\ page.markdown = <<>>

C29_OneOutstanding ==
    \A s \in Sessions :
        /\ Cardinality(DOMAIN sess[s].pending) <= 1
        /\ Cardinality({p \in DOMAIN Promises(s) : Promises(s)[p].state = "pending"}) <= 1
        /\ (cmd.sid = s /\ cmd.pc = "finally") => DOMAIN sess[s].pending = {}
        /\ sess[s].closeCalls >= 1 => DOMAIN sess[s].pending = {}

\* injectCommand is about to close after the keyDown of its first character
\* was answered with an error: nothing is pending
C29_Witness ==
    /\ cmd.op = "injectCommand"
    /\ cmd.pc = "finally"
    /\ cmd.outcome.kind = "throw"
    /\ Len(CmdSession.promises) = 2
    /\ CmdSession.promises[2].state = "rejected"
    /\ DOMAIN CmdSession.pending = {}
    /\ CmdSession.closeCalls = 0

\* C10 (as claimed): when the discovered list holds no page, findEditorTarget
\* yields no target and the command fails with 'No editor target found',
\* without a session and without a request.
C10_NoPageAlwaysThrows ==
    cmd.noPage =>
        /\ cmd.target = NoTarget
        /\ cmd.pc = "done"
        /\ cmd.outcome = Throw("No editor target found")
        /\ \A s \in Sessions : sess[s] = NoSession

\* C10 (amended): when the discovered list holds no page, findEditorTarget
\* yields no target and the command ends at once without a session and
\* without a request: getWorkspacePath returns null, every other command
\* fails with 'No editor target found'.
C10_NoPageNoSession ==
    cmd.noPage =>
        /\ cmd.target = NoTarget
        /\ cmd.pc = "done"
        /\ cmd.outcome = IF cmd.op = "getWorkspacePath"
                         THEN Return("null")
                         ELSE Throw("No editor target found")
        /\ \A s \in Sessions : sess[s] = NoSession

\* a screenshot was asked for while no page was listed
C10_Witness ==
    /\ cmd.noPage
    /\ cmd.op = "captureScreenshot"
    /\ cmd.outcome = Throw("No editor target found")

\* the command's one evaluation was answered and the answer was used
EvaluationUsed == cmd.step = 1 /\ cmd.pc \in {"finally", "done"} /\ cmd.result \in {"R1", "R2"}

\* C23: getWorkspacePath returns null and does not raise when no path can
\* be inferred: when there is no editor target, without opening a session;
\* and when neither a tab label or title nor a file URI yields a path (or
\* the response carries no value), and then the session that was opened is
\* closed before the command ends.
C23_NoPathIsNull ==
    cmd.op = "getWorkspacePath" =>
        /\ cmd.noPage =>
              /\ cmd.pc = "done"
              /\ cmd.outcome = Return("null")
              /\ \A s \in Sessions : sess[s] = NoSession
        /\ (EvaluationUsed /\ (cmd.result = "R1" \/ WorkspaceScript(cmd.page).isNull)) =>
              /\ cmd.outcome = Return("null")
              /\ cmd.pc = "done" => CmdSession.ws \in {"closing", "closed"}
              /\ cmd.pc = "done" => CmdSession.closeCalls = 1

\* the page had a tab labelled 'main.ts' and an element with a web URI: the
\* snippet returned no path, the command returned null and closed its session
C23_Witness ==
    /\ cmd.op = "getWorkspacePath"
    /\ cmd.pc = "done"
    /\ cmd.result = "R2"
    /\ cmd.page.tabs[1].ariaLabel = FileName
    /\ cmd.page.uris = <<WebUri>>
    /\ WorkspaceScript(cmd.page).isNull
    /\ cmd.outcome = Return("null")
    /\ CmdSession.closeCalls = 1

\* C28: focusInput reports the first strategy that applies to the page:
\* 'textarea' exactly when a textarea exists, 'contenteditable' exactly when
\* there is no textarea and there is an editable element,
\* 'keyboard_shortcut' exactly when there is neither; it returns
\* {success:false} only when the evaluation response carries no value.
C28_FirstStrategyReported ==
    (cmd.op = "focusInput" /\ cmd.pc \in {"finally", "done"} /\ cmd.outcome.kind = "return") =>
        /\ cmd.result \in {"R1", "R2"}
        /\ cmd.outcome.value = "{success:false}" <=> cmd.result = "R1"
        /\ cmd.result = "R2" =>
              /\ cmd.outcome.value = "{method:'textarea',success:true}"
                    <=> cmd.page.textarea
              /\ cmd.outcome.value = "{method:'contenteditable',success:true}"
                    <=> (~cmd.page.textarea /\ cmd.page.editable)
              /\ cmd.outcome.value = "{method:'keyboard_shortcut',success:true}"
                    <=> (~cmd.page.textarea /\ ~cmd.page.editable)

\* the page had a textarea and an editable element, and 'textarea' was
\* reported
C28_Witness ==
    /\ cmd.op = "focusInput"
    /\ cmd.pc = "done"
    /\ cmd.page.textarea /\ cmd.page.editable
    /\ cmd.outcome = Return("{method:'textarea',success:true}")

(***************************************************************************)
(* Claim about target selection, checked under SpecTargets.                *)
(***************************************************************************)
\* C9: findEditorTarget returns the first page in list order whose title
\* contains 'Antigravity' and not 'Launchpad' and whose url is not a
\* devtools url, when there is one; otherwise the first page in list order;
\* otherwise nothing.
C9_FirstEditorElseFirstPage ==
    found.called =>
        LET pages == {i \in 1..Len(targets) : targets[i].type = "page"}
            editors == {i \in pages :
                          /\ \E k \in 1..Len(targets[i].title) : targets[i].title[k] = "Antigravity"
                          /\ \A k \in 1..Len(targets[i].title) : targets[i].title[k] # "Launchpad"
                          /\ \A k \in 1..Len(targets[i].url) : targets[i].url[k] # "devtools"}
        IN  IF editors # {} THEN found.editor = targets[Least(editors)]
            ELSE IF pages # {} THEN found.editor = targets[Least(pages)]
            ELSE found.editor = NoTarget

\* a Launchpad page comes first in the list and the editor page after it is
\* the one returned
C9_Witness ==
    /\ found.called
    /\ Len(targets) = 2
    /\ targets[1].type = "page"
    /\ targets[1].title = <<"Antigravity", "-", "Launchpad">>
    /\ targets[2].title = <<"MyProject", "-", "Antigravity">>
    /\ found.editor = targets[2]
    /\ found.editor # targets[1]

OneElementPage(page) == Len(page[1]) = 1 /\ Len(page[2]) = 0

\* C21 (as claimed): a text is accepted exactly when it has at least 20
\* characters, at least 4 words, matches no blacklist pattern, contains one
\* of . ! ? and has more than 5 words, whatever its length; '3:45 AM' and
\* 'Submit' are rejected.
C21_AcceptedWhateverLength ==
    (call.fn = "chatScript" /\ call.done /\ OneElementPage(call.arg)) =>
        LET text == call.arg[1][1].text
        IN  /\ call.out.count = 1
                  <=> /\ text.len >= 20
                      /\ text.spaceWords >= 4
                      /\ ~text.black
                      /\ text.sentence
                      /\ text.words > 5
            /\ [text EXCEPT !.id = 0] \in {TimeLabel, SubmitLabel} => call.out.count = 0

\* C21 (amended): a text is accepted exactly when it has more than 30 and
\* fewer than 5000 characters, at least 4 pieces between single spaces,
\* matches no blacklist pattern, contains one of . ! ? and has more than 5
\* words between runs of white space; '3:45 AM' and 'Submit' are rejected.
C21_AcceptedWithinLengths ==
    (call.fn = "chatScript" /\ call.done /\ OneElementPage(call.arg)) =>
        LET text == call.arg[1][1].text
        IN  /\ call.out.count = 1
                  <=> /\ text.len > 30 /\ text.len < 5000
                      /\ text.spaceWords >= 4
                      /\ ~text.black
                      /\ text.sentence
                      /\ text.words > 5
            /\ call.out.count = 1 => Len(call.out.messages) = 1
            /\ [text EXCEPT !.id = 0] \in {TimeLabel, SubmitLabel} => call.out.count = 0

\* a text of 4999 characters passing every test was accepted, and the text
\* 'Submit' was tried
C21_Witness ==
    /\ call.fn = "chatScript" /\ call.done /\ OneElementPage(call.arg)
    /\ \/ /\ call.arg[1][1].text.len = 4999
          /\ call.arg[1][1].text.spaceWords = 4
          /\ call.arg[1][1].text.words = 6
          /\ call.out.count = 1
       \/ /\ [call.arg[1][1].text EXCEPT !.id = 0] = SubmitLabel
          /\ call.out.count = 0

\* the element ids of the records in the result
RecordSources == {call.out.messages[j].content.src : j \in DOMAIN call.out.messages}

\* the ids of the elements selector g returned
ElementIds(groups, g) == {groups[g][i].text.id : i \in DOMAIN groups[g]}

\* some element of selector g passes the acceptance tests
YieldsRecord(groups, g) == \E i \in DOMAIN groups[g] : Accepted(groups[g][i].text)

\* C26 (as claimed): once a selector's query has returned at least one
\* element, no later selector is consulted: no record of the result comes
\* from a later selector.
C26_StopsAtFirstElement ==
    (call.fn = "chatScript" /\ call.done) =>
        \A g \in DOMAIN call.arg :
            Len(call.arg[g]) > 0 =>
                \A h \in DOMAIN call.arg :
                    h > g => RecordSources \cap ElementIds(call.arg, h) = {}

\* C26 (amended): the selectors are visited in their order and the scan
\* stops at the first selector that yields an accepted record: every record
\* of the result comes from that selector, none from a later one, and a
\* selector whose elements were all rejected does not stop the scan.
C26_StopsAtFirstRecord ==
    (call.fn = "chatScript" /\ call.done) =>
        \A g \in DOMAIN call.arg :
            (YieldsRecord(call.arg, g) /\ \A f \in 1..(g - 1) : ~YieldsRecord(call.arg, f)) =>
                /\ call.out.count > 0
                /\ RecordSources \subseteq ElementIds(call.arg, g)
                /\ \A h \in DOMAIN call.arg :
                      h > g => RecordSources \cap ElementIds(call.arg, h) = {}

\* both selectors returned an element that passes the tests, and only the
\* first selector's record is in the result
C26_Witness ==
    /\ call.fn = "chatScript" /\ call.done
    /\ YieldsRecord(call.arg, 1) /\ YieldsRecord(call.arg, 2)
    /\ call.out.count = 1
    /\ RecordSources = ElementIds(call.arg, 1)

\* the elements of the first selector under which some element is accepted
ScannedElements(groups) ==
    LET winners == {g \in DOMAIN groups :
                       \E i \in DOMAIN groups[g] : Accepted(groups[g][i].text)}
    IN  IF winners = {} THEN <<>> ELSE groups[Least(winners)]

\* C20: for every page, count is the number of accepted elements; messages
\* holds min(20, count) records, which are those of the last accepted
\* elements in scan order; and each record's content is the leading part of
\* its element's text, cut to at most 1500 characters.
C20_LastTwentyTruncated ==
    (call.fn = "chatScript" /\ call.done) =>
        LET els == ScannedElements(call.arg)
            acc == {i \in DOMAIN els : Accepted(els[i].text)}
            count == Cardinality(acc)
            n == Len(call.out.messages)
        IN  /\ call.out.count = count
            /\ n = IF count < 20 THEN count ELSE 20
            /\ \A j \in 1..n :
                  \E i \in acc :
                     /\ Cardinality({a \in acc : a <= i}) = count - n + j
                     /\ call.out.messages[j].content.src = els[i].text.id
                     /\ call.out.messages[j].content.from = 0
                     /\ call.out.messages[j].content.len <= 1500
                     /\ call.out.messages[j].content.len =
                           IF els[i].text.len < 1500 THEN els[i].text.len ELSE 1500

\* twenty-two elements with texts of 4999 characters were accepted: the
\* result counts 22, holds 20 records starting with the third element, and
\* their content is cut to 1500 characters
C20_Witness ==
    /\ call.fn = "chatScript" /\ call.done
    /\ call.out.count = 22
    /\ Len(call.out.messages) = 20
    /\ call.arg[1][3].text.len = 4999
    /\ call.out.messages[1].content = [src |-> 3, from |-> 0, len |-> 1500]
    /\ call.out.messages[20].content.src = 22

\* the snippet found a path, and the segments it is split into
PathFound == call.fn = "workspace" /\ call.done /\ ~call.out.data.isNull /\ call.out.data.path # <<>>

PathParts == SplitPath(call.out.data.path, call.out.data.isWindows, <<>>)

\* the positions of the segments that equal the project name ignoring case
MatchingSegments ==
    {i \in DOMAIN PathParts :
        /\ ProjectName(call.arg.title) # <<>>
        /\ LowerChars(PathParts[i]) = LowerChars(ProjectName(call.arg.title))}

\* C22: when a path has been found, the title yields a project name and
\* some segment of the path equals it ignoring case, the value returned is
\* the path truncated to and including the first such segment from the
\* root; the label '/Users/alice/MyProject/src/index.ts - MyProject' with
\* the title 'MyProject - Antigravity' gives '/Users/alice/MyProject'.
C22_TruncatedAtProject ==
    /\ (PathFound /\ MatchingSegments # {}) =>
          /\ ~call.out.ws.isNull
          /\ SplitPath(call.out.ws.text, call.out.data.isWindows, <<>>)
                = SubSeq(PathParts, 1, Least(MatchingSegments))
          /\ ~call.out.data.isWindows => call.out.ws.text[1] = "/"
          /\ (call.out.data.source = "tab" /\ ~call.out.data.isWindows) =>
                call.out.ws.text = SubSeq(call.out.data.path, 1, Len(call.out.ws.text))
    /\ (call.fn = "workspace" /\ call.done
           /\ call.arg.title = <<"MyProject", "-", "Antigravity">>
           /\ call.arg.page.tabs # <<>>
           /\ call.arg.page.tabs[1].ariaLabel = ExampleLabel) =>
          Render(call.out.ws.text) = "/Users/alice/MyProject"

\* the path found has the segment 'myproject' after two others and the
\* value returned ends with it
C22_Witness ==
    /\ PathFound
    /\ call.arg.page.tabs # <<>>
    /\ call.arg.page.tabs[1].ariaLabel = LowerCaseProjectPath
    /\ MatchingSegments = {3}
    /\ Render(call.out.ws.text) = "/home/bob/myproject"

\* C24 (as claimed): when a path has been found and no segment matches the
\* project name, or there is no project name, the value returned is the
\* path with exactly its last segment dropped, for every path of one or
\* more segments: it is built only from leading segments of the path.
C24_ParentOfPath ==
    (PathFound /\ MatchingSegments = {} /\ Len(PathParts) >= 1) =>
        /\ ~call.out.ws.isNull
        /\ SplitPath(call.out.ws.text, call.out.data.isWindows, <<>>)
              = SubSeq(PathParts, 1, Len(PathParts) - 1)

\* the first position in the label of one of the root prefixes
FirstRoot(label) ==
    Least({IndexOf(label, UnixRoots[u]) : u \in DOMAIN UnixRoots} \ {-1})

\* C27 (as claimed): for a tab label that contains a Unix-style path, the
\* path extracted begins at the first occurrence in the label of one of the
\* root prefixes and ends just before the first delimiter that follows,
\* also when a letter followed by ':' occurs in the label and when more
\* than one root prefix occurs.
C27_FromFirstRoot ==
    (call.fn = "workspace" /\ call.done /\ call.arg.page.tabs # <<>>) =>
        LET label == call.arg.page.tabs[1].ariaLabel
            pathPart == SubstringFrom(label, FirstRoot(label))
        IN  (\E u \in DOMAIN UnixRoots : IndexOf(label, UnixRoots[u]) >= 0) =>
                /\ call.out.data.source = "tab"
                /\ ~call.out.data.isWindows
                /\ call.out.data.path = Trim(Slice(pathPart, 0, EndIndex(pathPart, UnixDelims)))

\* C30 (as claimed): waitForCDP and waitForServer always terminate: they
\* return true as soon as a probe is answered OK, and false once the
\* timeout has elapsed without an OK answer, whatever the probed endpoint
\* does, also when it never answers a probe.
C30_PollingTerminates ==
    /\ [](call.pc = "returned" /\ call.out = "true" => call.answer = "ok")
    /\ [](call.pc = "returned" /\ call.out = "false" =>
              call.answer # "ok" /\ call.now - call.start >= call.arg)
    /\ [](call.answer = "ok" => call.pc = "returned" /\ call.out = "true")
    /\ <>(call.pc = "returned")

\* C31: in one run of the launcher each process is spawned at most once
\* and only when needed: the HTTP server only after port 3001 was found not
\* in use, Antigravity only when its executable was found and the first
\* waitForCDP returned false, which it does only after its window has ended
\* without an OK answer; when CDP answered, Antigravity is not spawned.
C31_SpawnedOnceWhenNeeded ==
    call.fn = "main" =>
        /\ call.serverSpawns <= 1 /\ call.antigravitySpawns <= 1
        /\ call.serverSpawns = 1 => call.scriptExists /\ call.portInUse = "no"
        /\ call.portInUse = "yes" => call.serverSpawns = 0
        /\ call.antigravitySpawns = 1 =>
              /\ call.path # 0
              /\ \E p \in DOMAIN call.inst.paths \cup {-1} :
                    /\ call.path = p
                    /\ IF p = -1 THEN call.inst.viaCommand ELSE call.inst.paths[p]
              /\ call.cdpAlreadyRunning = "false"
        /\ call.cdpAlreadyRunning = "true" => call.antigravitySpawns = 0
        /\ (call.step = "waitCdp" /\ call.pc = "returned" /\ call.out = "false") =>
              call.answer # "ok" /\ call.now - call.start >= RunningCheckTimeout

\* both processes were spawned, once each, in a run that came to its end
C31_Witness ==
    /\ call.fn = "main"
    /\ call.step = "done"
    /\ call.serverSpawns = 1 /\ call.antigravitySpawns = 1
    /\ call.portInUse = "no" /\ call.cdpAlreadyRunning = "false"

\* the order of the steps, the launch being left out when CDP answered
StepOrder == << "server", "find", "cdp", "launch", "status" >>
StepOrderNoLaunch == << "server", "find", "cdp", "status" >>

IsPrefix(a, b) == Len(a) <= Len(b) /\ SubSeq(b, 1, Len(a)) = a

\* C32 (as claimed): the launcher performs its steps in the fixed order
\* server, find, CDP check, launch, status check; when no executable is
\* found it exits with status 1 without spawning Antigravity and without
\* reaching the status check, a server it spawned staying spawned; and once
\* the executable is found it always reaches the final banner, whatever the
\* CDP port and the HTTP port answer or fail to answer.
C32_OrderAndBanner ==
    /\ [](call.fn = "main" =>
            /\ IsPrefix(call.steps, StepOrder) \/ IsPrefix(call.steps, StepOrderNoLaunch)
            /\ (Len(call.steps) >= 2 /\ FindAntigravityPath(call.inst) = 0) =>
                  /\ call.step = "exited" /\ call.exit = "1"
                  /\ call.antigravitySpawns = 0
                  /\ call.steps = << "server", "find" >>
                  /\ ~call.banner
                  /\ call.portInUse = "no" => call.serverSpawns = 1
            /\ call.banner => call.steps[Len(call.steps)] = "status")
    /\ [](call.fn = "main" /\ call.step = "cdp" => <>call.banner)

====
